---- MODULE Spec2Model ----
(***************************************************************************)
(* NETCONF-over-SSH protocol engine of qn-netconf (main.go): the frame     *)
(* codec readFrame, the per-channel session flow handleNETCONFSession /    *)
(* handleNETCONFCommunication, the subsystem negotiator goroutine and the  *)
(* connection deadline.  Byte slices are TLA+ strings.                     *)
(***************************************************************************)
EXTENDS Integers, Sequences, FiniteSets, TLC

\* ------------------------------------------------------------------------
\* Bounds of the model
\* ------------------------------------------------------------------------
\* total number of payload bytes a codec run feeds to readFrame
MaxPayloadBytes == 3
\* number of frames a codec run feeds to readFrame
MaxCodecFrames == 2

\* ------------------------------------------------------------------------
\* Program constants
\* ------------------------------------------------------------------------
\* appConfig.FrameEnd
FrameEnd == "]]>]]>"
\* len(readBuf) in readFrame
ReadBufSize == 4096

\* ------------------------------------------------------------------------
\* Byte-slice helpers (package bytes / strings)
\* ------------------------------------------------------------------------
Min(a, b) == IF a < b THEN a ELSE b

\* s[from:] with a 0-based offset
SliceFrom(s, from) == SubSeq(s, from + 1, Len(s))

\* s[:to] with a 0-based, exclusive end
SliceTo(s, to) == SubSeq(s, 1, to)

\* bytes.HasPrefix
HasPrefix(s, p) == Len(s) >= Len(p) /\ SubSeq(s, 1, Len(p)) = p

\* the scan of bytes.Index over the bytes b
IndexOf(b, sep) ==
  LET hits == {i \in 0..(Len(b) - Len(sep)) : SubSeq(b, i + 1, i + Len(sep)) = sep}
  IN  IF hits = {} THEN -1 ELSE CHOOSE i \in hits : \A j \in hits : i <= j

\* bytes.Index: 0-based offset of the first occurrence of sep in s, or -1
\* (s is bound to its value b once, before the scan)
Index(s, sep) == CHOOSE r \in {IndexOf(b, sep) : b \in {s}} : TRUE

\* bytes.Contains
Contains(s, sep) == Index(s, sep) # -1

\* the white space bytes.TrimSpace removes
IsSpace(ch) == ch \in {" ", "\t", "\n", "\r"}

\* the trimming of bytes.TrimSpace over the bytes b
TrimSpaceOf(b) ==
  LET keep == {i \in 1..Len(b) : ~IsSpace(SubSeq(b, i, i))}
  IN  IF keep = {} THEN ""
      ELSE LET lo == CHOOSE i \in keep : \A j \in keep : i <= j
               hi == CHOOSE i \in keep : \A j \in keep : i >= j
           IN  SubSeq(b, lo, hi)

\* bytes.TrimSpace (s is bound to its value b once)
TrimSpace(s) == CHOOSE r \in {TrimSpaceOf(b) : b \in {s}} : TRUE

\* ------------------------------------------------------------------------
\* uint32 values: two 16-bit halves, so that arithmetic keeps its 32-bit width
\* ------------------------------------------------------------------------
Limb == 65536

Uint32(hi, lo) == [hi |-> hi, lo |-> lo]

\* c + delta modulo 2^32, for delta < 2^16
AddUint32(c, delta) ==
  [hi |-> (c.hi + (c.lo + delta) \div Limb) % Limb,
   lo |-> (c.lo + delta) % Limb]

\* a < b as unsigned numbers
LessUint32(a, b) == a.hi < b.hi \/ (a.hi = b.hi /\ a.lo < b.lo)

\* quotient and remainder of c by ten
DivMod10(c) ==
  LET r == (c.hi % 10) * Limb + c.lo
  IN  [q |-> Uint32(c.hi \div 10, r \div 10), r |-> r % 10]

Digit(d) == SubSeq("0123456789", d + 1, d + 1)

\* fmt.Sprintf("%d", c): the decimal digits of c, without leading zeros
RECURSIVE FormatUint32(_)
FormatUint32(c) ==
  IF DivMod10(c).q = Uint32(0, 0)
  THEN Digit(DivMod10(c).r)
  ELSE FormatUint32(DivMod10(c).q) \o Digit(DivMod10(c).r)

\* var sessionCounter uint32 = 1000
InitialSessionCounter == Uint32(0, 1000)

\* ------------------------------------------------------------------------
\* readFrame: one iteration of its loop after a successful channel.Read.
\* buffer is the function's local bytes.Buffer, chunk is readBuf[:n].
\* When the terminator is found the frame is returned; the bytes written
\* back into the local buffer (remaining) go out of scope with the call.
\* ------------------------------------------------------------------------
\* readFrame that scans only the bytes of the latest read
readFrameStep_latestChunkOnly(buffer, chunk) ==
  LET terminatorIndex == Index(chunk, FrameEnd)
  IN  IF terminatorIndex # -1
      THEN [found     |-> TRUE,
            message   |-> TrimSpace(SliceTo(chunk, terminatorIndex)),
            remaining |-> SliceFrom(chunk, terminatorIndex + Len(FrameEnd)),
            buffer    |-> chunk]
      ELSE [found     |-> FALSE,
            message   |-> "",
            remaining |-> "",
            buffer    |-> chunk]

readFrameStep(buffer, chunk) ==
  LET b == buffer \o chunk
      terminatorIndex == Index(b, FrameEnd)
  IN  IF terminatorIndex # -1
      THEN [found     |-> TRUE,
            message   |-> TrimSpace(SliceTo(b, terminatorIndex)),
            remaining |-> SliceFrom(b, terminatorIndex + Len(FrameEnd)),
            buffer    |-> b]
      ELSE [found     |-> FALSE,
            message   |-> "",
            remaining |-> "",
            buffer    |-> b]

\* ------------------------------------------------------------------------
\* Dispatcher: generateResponse and its helpers.  A reply is a record: the
\* rpc-error built by buildErrorResponse, or the bytes of the data-model
\* handler that was invoked (handlers are external collaborators: their
\* reply is identified by the handler's name and the message-id it got).
\* ------------------------------------------------------------------------
VlanNamespace == "urn:example:params:xml:ns:yang:vlan"
InterfaceNamespace == "yang:interfaces"
SshConfigNamespace == "yang:ssh"
TelnetConfigNamespace == "urn:example:params:xml:ns:yang:telnet-server-config"
RoutingNamespace == "urn:example:params:xml:ns:yang:routing"
IpInterfaceNamespace == "urn:example:params:xml:ns:yang:ip-interface"
PortConfigNamespace == "urn:example:params:xml:ns:yang:port-config"
StpGlobalConfigNamespace == "yang:stp-global-config"
PortStatusNamespace == "yang:get_port_status"
PortDescriptionNamespace == "yang:get_port_description"
PortSpeedNamespace == "yang:get_port_speed"

\* extractMessageID without the search for the closing quote
extractMessageID_unterminated(request) ==
  LET i == Index(request, "message-id=\"")
  IN  IF i > -1 THEN SliceFrom(request, i + 12) ELSE "1"

\* extractMessageID
extractMessageID(request) ==
  LET i == Index(request, "message-id=\"")
  IN  IF i > -1
      THEN LET rest == SliceFrom(request, i + 12)
               j == Index(rest, "\"")
           IN  IF j > -1 THEN SliceTo(rest, j) ELSE "1"
      ELSE "1"

\* strings.ReplaceAll for a non-empty old: every occurrence, left to right
\* (b is the text, i the offset of the first occurrence in it, each bound
\* to its value once)
RECURSIVE ReplaceAll(_, _, _)
ReplaceAll(s, old, new) ==
  CHOOSE r \in {IF i = -1 THEN b
                ELSE SliceTo(b, i) \o new \o
                     ReplaceAll(SliceFrom(b, i + Len(old)), old, new) :
                  <<b, i>> \in {<<t, IndexOf(t, old)>> : t \in {s}}} : TRUE

\* buildErrorResponse: the fields it formats into the rpc-error document
buildErrorResponse(frameEnd, msgID, errTag, errMsg) ==
  LET escaped1 == ReplaceAll(errMsg, "<", "&lt;")
      escaped2 == ReplaceAll(escaped1, ">", "&gt;")
      escapedErrMsg == ReplaceAll(escaped2, "&", "&amp;")
  IN  [kind      |-> "rpc-error",
       msgID     |-> msgID,
       errorType |-> "application",
       errorTag  |-> errTag,
       errorMsg  |-> escapedErrMsg,
       handler   |-> "",
       frameEnd  |-> frameEnd]

\* no response (the zero value of the response variable)
NoReply ==
  [kind      |-> "none",
   msgID     |-> "",
   errorType |-> "",
   errorTag  |-> "",
   errorMsg  |-> "",
   handler   |-> "",
   frameEnd  |-> ""]

\* the reply of a data-model handler invoked with (msgID, frameEnd)
HandlerReply(handler, msgID, frameEnd) ==
  [kind      |-> "handler",
   msgID     |-> msgID,
   errorType |-> "",
   errorTag  |-> "",
   errorMsg  |-> "",
   handler   |-> handler,
   frameEnd  |-> frameEnd]

\* one branch of an if / else-if chain: bytes.Contains(request, all) and
\* bytes.Contains(request, a) for some a in any
Check(all, any, handler) == [all |-> all, any |-> any, handler |-> handler]

\* the two quotations of a namespace attribute the short checks accept
Xmlns(ns) == {"xmlns=\"" \o ns \o "\"", "xmlns='" \o ns \o "'"}

\* a check on one literal marker
Marker(m, handler) == Check(m, {""}, handler)

\* the branches of the <get> chain, in source order
GetChecks ==
  << Check("<vlans", Xmlns("yang:vlan"), "BuildGetVlansResponse"),
     Marker("<vlans xmlns=\"" \o VlanNamespace \o "\"", "BuildGetVlansResponse"),
     Check("<interfaces", Xmlns("yang:get_interface"), "BuildGetInterfacesResponse"),
     Marker("<interfaces xmlns=\"" \o InterfaceNamespace \o "\"", "BuildGetInterfacesResponse"),
     Check("<ssh", Xmlns("yang:get_ssh"), "HandleSSHGetConfig"),
     Marker("<ssh xmlns=\"" \o SshConfigNamespace \o "\"", "HandleSSHGetConfig"),
     Check("<telnet", Xmlns("yang:get_telnet"), "HandleTelnetGetConfig"),
     Marker("<telnet xmlns=\"" \o TelnetConfigNamespace \o "\"", "HandleTelnetGetConfig"),
     Check("<ip-interfaces", Xmlns("yang:get_ip_interface"), "HandleIpInterfaceGetConfig"),
     Marker("<ip-interfaces xmlns=\"" \o IpInterfaceNamespace \o "\"", "HandleIpInterfaceGetConfig"),
     Check("<port-channels", Xmlns("yang:get_port_channel"), "HandleLagGetConfig"),
     Check("<port-configurations", Xmlns("yang:get_port_config"), "HandlePortConfigurationGetConfig"),
     Marker("<port-configurations xmlns=\"" \o PortConfigNamespace \o "\"", "HandlePortConfigurationGetConfig"),
     Check("<stp-global-config", Xmlns("yang:get_stp"), "HandleStpGetConfig"),
     Marker("<stp-global-config xmlns=\"" \o StpGlobalConfigNamespace \o "\"", "HandleStpGetConfig"),
     Check("<port-status", Xmlns(PortStatusNamespace), "HandleGetPortStatus"),
     Check("<port-description", Xmlns(PortDescriptionNamespace), "HandleGetPortDescription"),
     Check("<port-speed", Xmlns(PortSpeedNamespace), "HandleGetPortSpeed") >>

\* the branches of the <get-config> chain, in source order
GetConfigChecks ==
  << Check("<vlans", Xmlns("yang:vlan"), "BuildGetVlansResponse"),
     Marker("<vlans xmlns=\"" \o VlanNamespace \o "\"", "BuildGetVlansResponse"),
     Check("<interfaces", Xmlns("yang:get_interface"), "BuildGetInterfacesResponse"),
     Marker("<interfaces xmlns=\"" \o InterfaceNamespace \o "\"", "BuildGetInterfacesResponse"),
     Check("<ssh", Xmlns("yang:get_ssh"), "HandleSSHGetConfig"),
     Marker("<ssh xmlns=\"" \o SshConfigNamespace \o "\"", "HandleSSHGetConfig"),
     Check("<telnet", Xmlns("yang:get_telnet"), "HandleTelnetGetConfig"),
     Marker("<telnet xmlns=\"" \o TelnetConfigNamespace \o "\"", "HandleTelnetGetConfig"),
     Check("<port-channels", Xmlns("yang:get_port_channel"), "HandleLagGetConfig"),
     Check("<port-configurations", Xmlns("yang:get_port_config"), "HandlePortConfigurationGetConfig"),
     Marker("<ip-interfaces xmlns=\"" \o IpInterfaceNamespace \o "\"", "HandleIpInterfaceGetConfig"),
     Marker("<port-configurations xmlns=\"" \o PortConfigNamespace \o "\"", "HandlePortConfigurationGetConfig"),
     Marker("<stp-global-config xmlns=\"" \o StpGlobalConfigNamespace \o "\"", "HandleStpGetConfig"),
     Check("<ip-interfaces", Xmlns("yang:get_ip_interface"), "HandleIpInterfaceGetConfig"),
     Marker("<port-configurations xmlns=\"" \o PortConfigNamespace \o "\"", "HandlePortConfigurationGetConfig"),
     Check("<stp-global-config", Xmlns("yang:get_stp"), "HandleStpGetConfig"),
     Marker("<stp-global-config xmlns=\"" \o StpGlobalConfigNamespace \o "\"", "HandleStpGetConfig"),
     Check("<port-status", Xmlns(PortStatusNamespace), "HandleGetPortStatus"),
     Check("<port-description", Xmlns(PortDescriptionNamespace), "HandleGetPortDescription"),
     Check("<port-speed", Xmlns(PortSpeedNamespace), "HandleGetPortSpeed") >>

\* the branches of rpcHandlers["edit-config"], in source order
EditConfigChecks ==
  << Marker("<vlans xmlns=\"yang:set_vlan\">", "HandleEditConfig"),
     Marker("<vlans xmlns=\"" \o VlanNamespace \o "\">", "HandleEditConfig"),
     Marker("<ssh xmlns=\"yang:set_ssh\">", "HandleSSHEditConfig"),
     Marker("<ssh xmlns=\"" \o SshConfigNamespace \o "\">", "HandleSSHEditConfig"),
     Marker("<telnet xmlns=\"yang:set_telnet\">", "HandleTelnetEditConfig"),
     Marker("<telnet xmlns=\"" \o TelnetConfigNamespace \o "\">", "HandleTelnetEditConfig"),
     Marker("<routing xmlns=\"" \o RoutingNamespace \o "\">", "HandleRouteEditConfig"),
     Marker("<routing xmlns=\"yang:set_route\">", "HandleRouteEditConfig"),
     Marker("<ip-interfaces xmlns=\"yang:set_ip_interface\">", "HandleIpInterfaceEditConfig"),
     Marker("<ip-interfaces xmlns=\"" \o IpInterfaceNamespace \o "\">", "HandleIpInterfaceEditConfig"),
     Marker("<port-configurations xmlns=\"" \o PortConfigNamespace \o "\">", "HandlePortConfigurationEditConfig"),
     Marker("<port-configurations xmlns=\"yang:set_port_config\">", "HandlePortConfigurationEditConfig"),
     Marker("<port-channels xmlns=\"yang:set_port_channel\">", "HandlePortConfigurationEditConfig"),
     Marker("<stp-global-config xmlns=\"yang:set_stp\">", "HandleStpEditConfig"),
     Marker("<stp-global-config xmlns=\"" \o StpGlobalConfigNamespace \o "\">", "HandleStpEditConfig") >>

\* the condition of one branch
Matches(request, check) ==
  /\ Contains(request, check.all)
  /\ \E a \in check.any : Contains(request, a)

\* a chain in which a later branch that matches overrides an earlier one
ResolveFrom_lastMatch(request, checks, i) ==
  LET matching == {j \in i..Len(checks) : Matches(request, checks[j])}
  IN  IF matching = {} THEN ""
      ELSE checks[CHOOSE j \in matching : \A k \in matching : k <= j].handler

\* the if / else-if chain from branch i on: the handler of the first branch
\* that matches, "" if none does
RECURSIVE ResolveFrom(_, _, _)
ResolveFrom(request, checks, i) ==
  IF i > Len(checks) THEN ""
  ELSE IF Matches(request, checks[i]) THEN checks[i].handler
  ELSE ResolveFrom(request, checks, i + 1)

\* a chain whose last else invokes the handler of its first branch
Resolve_defaultsToFirst(request, checks) ==
  LET handler == ResolveFrom(request, checks, 1)
  IN  IF handler = "" THEN checks[1].handler ELSE handler

\* the handler the whole chain invokes
Resolve(request, checks) == ResolveFrom(request, checks, 1)

\* rpcHandlers["edit-config"]
editConfigHandler(frameEnd, request, msgID) ==
  LET handler == Resolve(request, EditConfigChecks)
  IN  IF handler # ""
      THEN HandlerReply(handler, msgID, frameEnd)
      ELSE buildErrorResponse(frameEnd, msgID, "operation-failed",
                              "Unsupported configuration target in edit-config")

\* generateResponse without the test of rpcStartIndex: a frame with no
\* "<rpc" falls through the operation branches
generateResponse_noRpcCheck(request) ==
  LET msgID == extractMessageID(request)
      rpcStartIndex == Index(request, "<rpc")
      rpcQuery == IF rpcStartIndex = -1 THEN request ELSE SliceFrom(request, rpcStartIndex)
  IN  IF HasPrefix(rpcQuery, "<rpc") /\ Contains(rpcQuery, "<get>")
           /\ Contains(rpcQuery, "</get>")
      THEN LET handler == Resolve(request, GetChecks)
           IN  IF handler # ""
               THEN HandlerReply(handler, msgID, FrameEnd)
               ELSE buildErrorResponse(FrameEnd, msgID, "operation-not-supported",
                      "The <get> operation with the specified filter is not supported.")
      ELSE IF HasPrefix(rpcQuery, "<rpc") /\ Contains(rpcQuery, "<get-config>")
                /\ Contains(rpcQuery, "</get-config>")
      THEN LET handler == Resolve(request, GetConfigChecks)
           IN  IF handler # ""
               THEN HandlerReply(handler, msgID, FrameEnd)
               ELSE buildErrorResponse(FrameEnd, msgID, "operation-not-supported",
                      "The <get-config> operation with the specified filter is not supported.")
      ELSE IF HasPrefix(rpcQuery, "<rpc") /\ Contains(rpcQuery, "<edit-config")
      THEN editConfigHandler(FrameEnd, request, msgID)
      ELSE buildErrorResponse(FrameEnd, msgID, "operation-not-supported",
                              "Operation not supported or request malformed.")

\* generateResponse with a get branch that does not look for the get tags:
\* any rpc element is resolved as a get
generateResponse_anyRpcIsGet(request) ==
  LET msgID == extractMessageID(request)
      rpcStartIndex == Index(request, "<rpc")
      rpcQuery == SliceFrom(request, rpcStartIndex)
  IN  IF rpcStartIndex = -1
      THEN buildErrorResponse(FrameEnd, msgID, "malformed-message",
                              "Request frame does not contain an <rpc> tag.")
      ELSE IF HasPrefix(rpcQuery, "<rpc")
      THEN LET handler == Resolve(request, GetChecks)
           IN  IF handler # ""
               THEN HandlerReply(handler, msgID, FrameEnd)
               ELSE buildErrorResponse(FrameEnd, msgID, "operation-not-supported",
                      "The <get> operation with the specified filter is not supported.")
      ELSE buildErrorResponse(FrameEnd, msgID, "operation-not-supported",
                              "Operation not supported or request malformed.")

\* generateResponse
generateResponse(request) ==
  LET msgID == extractMessageID(request)
      rpcStartIndex == Index(request, "<rpc")
      rpcQuery == SliceFrom(request, rpcStartIndex)
  IN  IF rpcStartIndex = -1
      THEN buildErrorResponse(FrameEnd, msgID, "malformed-message",
                              "Request frame does not contain an <rpc> tag.")
      ELSE IF HasPrefix(rpcQuery, "<rpc") /\ Contains(rpcQuery, "<get>")
                /\ Contains(rpcQuery, "</get>")
      THEN LET handler == Resolve(request, GetChecks)
           IN  IF handler # ""
               THEN HandlerReply(handler, msgID, FrameEnd)
               ELSE buildErrorResponse(FrameEnd, msgID, "operation-not-supported",
                      "The <get> operation with the specified filter is not supported.")
      ELSE IF HasPrefix(rpcQuery, "<rpc") /\ Contains(rpcQuery, "<get-config>")
                /\ Contains(rpcQuery, "</get-config>")
      THEN LET handler == Resolve(request, GetConfigChecks)
           IN  IF handler # ""
               THEN HandlerReply(handler, msgID, FrameEnd)
               ELSE buildErrorResponse(FrameEnd, msgID, "operation-not-supported",
                      "The <get-config> operation with the specified filter is not supported.")
      ELSE IF HasPrefix(rpcQuery, "<rpc") /\ Contains(rpcQuery, "<edit-config")
      THEN editConfigHandler(FrameEnd, request, msgID)
      ELSE buildErrorResponse(FrameEnd, msgID, "operation-not-supported",
                              "Operation not supported or request malformed.")


\* ------------------------------------------------------------------------
\* The bytes of a reply.  buildErrorResponse formats its template; a
\* data-model handler returns along one of its paths, and each path either
\* goes through the handler's marshalToXML helper, which appends frameEnd,
\* or returns bytes it has put together itself.
\* ------------------------------------------------------------------------
\* xml.Header
XmlHeader == "<?xml version=\"1.0\" encoding=\"UTF-8\"?>\n"

\* the bytes buildErrorResponse returns for the fields r
ErrorBytes(r) ==
  "<?xml version=\"1.0\" encoding=\"UTF-8\"?>\n"
  \o "<rpc-reply message-id=\"" \o r.msgID
  \o "\" xmlns=\"urn:ietf:params:xml:ns:netconf:base:1.0\">\n"
  \o "  <rpc-error>\n"
  \o "    <error-type>" \o r.errorType \o "</error-type>\n"
  \o "    <error-tag>" \o r.errorTag \o "</error-tag>\n"
  \o "    <error-severity>error</error-severity>\n"
  \o "    <error-message xml:lang=\"en\">" \o r.errorMsg \o "</error-message>\n"
  \o "  </rpc-error>\n"
  \o "</rpc-reply>\n"
  \o r.frameEnd

\* how a handler call can go: the backend answers with data the handler
\* can use, cannot be reached, answers with an error, answers with data the
\* handler cannot parse, or the XML of the reply cannot be generated
HandlerPaths == {"success", "unreachable", "device-error", "bad-data", "xml-generation"}

\* the escape xml.MarshalIndent applies to one character of an attribute
\* value or of text
xmlEscapeChar(ch) ==
  CASE ch = "<"  -> "&lt;"
    [] ch = ">"  -> "&gt;"
    [] ch = "&"  -> "&amp;"
    [] ch = "\"" -> "&#34;"
    [] ch = "'"  -> "&#39;"
    [] OTHER     -> ch

RECURSIVE xmlEscapeText(_)
xmlEscapeText(text) ==
  IF text = "" THEN ""
  ELSE xmlEscapeChar(SubSeq(text, 1, 1)) \o xmlEscapeText(SliceFrom(text, 1))

\* the handlers whose success reply is <ok/>: those of edit-config
EditHandlers ==
  {"HandleEditConfig", "HandleSSHEditConfig", "HandleTelnetEditConfig",
   "HandleRouteEditConfig", "HandleIpInterfaceEditConfig",
   "HandlePortConfigurationEditConfig", "HandleStpEditConfig"}

\* the paths on which the reply structure of a handler has a message-id
\* attribute: all those of the VLAN and Telnet handlers, the error replies
\* of the port-configuration get handler, none of the others, whose reply
\* structures have no such field
MessageIdPaths(handler) ==
  CASE handler \in {"BuildGetVlansResponse", "HandleEditConfig",
                    "HandleTelnetGetConfig", "HandleTelnetEditConfig"} ->
         {"success", "unreachable", "device-error", "bad-data"}
    [] handler = "HandlePortConfigurationGetConfig" ->
         {"unreachable", "device-error", "bad-data"}
    [] OTHER -> {}

\* the document xml.MarshalIndent produces for a reply; the marshaller
\* escapes '>' in text and attributes, so the document has no "]]>" in it
XmlBytes(handler, path, msgID) ==
  "<rpc-reply"
  \o (IF path \in MessageIdPaths(handler)
      THEN " message-id=\"" \o xmlEscapeText(msgID) \o "\""
      ELSE "")
  \o "><"
  \o (IF path # "success" THEN "rpc-error"
      ELSE IF handler \in EditHandlers THEN "ok" ELSE "data")
  \o "/></rpc-reply>"

\* marshalToXML that leaves frameEnd out
marshalToXML_unterminated(xmlBytes, path, frameEnd) ==
  IF path = "xml-generation"
  THEN "<?xml version=\"1.0\" encoding=\"UTF-8\"?><rpc-reply><rpc-error/></rpc-reply>"
  ELSE XmlHeader \o xmlBytes

\* marshalToXML and its per-handler copies: the declaration, the document
\* and frameEnd, or the literal internal-error document and frameEnd
marshalToXML(xmlBytes, path, frameEnd) ==
  IF path = "xml-generation"
  THEN "<?xml version=\"1.0\" encoding=\"UTF-8\"?>"
       \o "<rpc-reply xmlns=\"urn:ietf:params:xml:ns:netconf:base:1.0\"><rpc-error>"
       \o "<error-type>application</error-type><error-tag>internal-error</error-tag>"
       \o "<error-severity>error</error-severity><error-message>"
       \o "Internal server error during XML generation</error-message>"
       \o "</rpc-error></rpc-reply>" \o frameEnd
  ELSE XmlHeader \o xmlBytes \o frameEnd

\* BuildGetInterfacesResponse: frameEnd is not used on any path
BuildGetInterfacesResponse(path, msgID, frameEnd) ==
  CASE path = "success"        -> XmlHeader \o "<rpc-reply><interface/></rpc-reply>"
    [] path = "unreachable"    -> "Error calling Miyagi: connection refused"
    [] path = "device-error"   -> "Miyagi error: Device error retrieving interfaces: failed (code: 1)"
    [] path = "bad-data"       -> "Failed to parse interface data from device"
    [] OTHER                   -> "Error generating inner XML content: unsupported type"

\* HandleIpInterfaceGetConfig: the two backend-error paths go through
\* buildErrorResponseBytesIpInterface, the others return their own bytes
HandleIpInterfaceGetConfig(path, msgID, frameEnd) ==
  CASE path \in {"unreachable", "device-error"} ->
         marshalToXML(XmlBytes("HandleIpInterfaceGetConfig", path, msgID), path, frameEnd)
    [] path = "bad-data" ->
         "<?xml version=\"1.0\" encoding=\"UTF-8\"?><error>Failed to parse IP interface data"
         \o " from device: unexpected end of JSON input. Raw: </error>"
    [] path = "success" ->
         XmlHeader \o "<rpc-reply><interface/></rpc-reply>"
    [] OTHER ->
         "<?xml version=\"1.0\" encoding=\"UTF-8\"?><rpc-reply><error>Error generating inner"
         \o " XML content for IP interfaces: unsupported type</error></rpc-reply>"

\* the bytes the handler invoked by the dispatcher returns
HandlerBytes(handler, path, msgID, frameEnd) ==
  CASE handler = "BuildGetInterfacesResponse" ->
         BuildGetInterfacesResponse(path, msgID, frameEnd)
    [] handler = "HandleIpInterfaceGetConfig" ->
         HandleIpInterfaceGetConfig(path, msgID, frameEnd)
    [] OTHER ->
         marshalToXML(XmlBytes(handler, path, msgID), path, frameEnd)

\* the bytes generateResponse returns
ResponseBytes(r, path) ==
  IF r.kind = "handler"
  THEN HandlerBytes(r.handler, path, r.msgID, r.frameEnd)
  ELSE ErrorBytes(r)

\* ------------------------------------------------------------------------
\* State
\* ------------------------------------------------------------------------
VARIABLES
  cPayloads,   \* codec run: the payloads W1, W2, ... put on the wire
  cStream,     \* codec run: bytes of the wire not yet returned by channel.Read
  cBuf,        \* codec run: readFrame's local buffer during a call
  cPc,         \* codec run: "idle" between calls, "reading" inside readFrame
  cFrames,     \* codec run: payloads returned by the successive calls
  cErr,        \* codec run: error returned by the last call ("" if none)
  cDropped,    \* codec run: bytes that followed a terminator and were discarded
  cCut,        \* codec run: some chunk has ended strictly inside a terminator
  ctxDone,        \* the connection's context deadline has elapsed (ctx.Done() is closed)
  sessionCounter, \* the package variable sessionCounter
  crashed,        \* a goroutine has panicked: the process is gone
  pc,             \* where the goroutine of handleNETCONFSession is
  npc,            \* where the negotiator goroutine (the go func of handleNETCONFSession) is
  reqs,           \* the channel's request stream: requests received and not yet taken
  reqsClosed,     \* the request stream has been closed (the peer closed the channel)
  served,         \* each request the negotiator took, with the value passed to req.Reply
  subsysChan,     \* the buffered channel subsysChan
  matchedLate,    \* the netconf request was matched when the deadline had already elapsed
  sessionID,      \* the sessionID of handleNETCONFSession ("" before the call)
  wire,           \* bytes the client has sent that channel.Read has not returned yet
  wireEnd,        \* "open", or how the client side ended: "eof" (closed) or "err" (broken)
  nSent,          \* number of packets the client has sent
  rfBuf,          \* the local buffer of the readFrame call in progress
  clientHello,    \* the first frame read, as a sequence of at most one payload
  reqLog,         \* the frames readFrame has returned to the main loop, in order
  pending,        \* the response generateResponse returned that is not yet written
  out,            \* what channel.Write has written, in order
  readErr,        \* the error the last readFrame call returned ("" if none)
  result,         \* how the session flow ended ("" while it runs)
  channelOpen,    \* the accepted channel has not been closed by the server
  idCalls,        \* concurrent callers of generateSessionID: where each is, what it got
  idOrder,        \* the callers in the order their atomic increments took effect
  dIn,            \* dispatcher run: the input of the call (a request frame or an error message)
  dResp,          \* dispatcher run: what the call returned (NoReply before it)
  dOut,           \* dispatcher run: the bytes the call returned
  mainPc,         \* server: where main is ("serving", "closing", "exited")
  acceptPc,       \* server: where the accept loop goroutine is
  conn,           \* server: the state of each TCP connection
  chans,          \* server: per connection, the channels the client has opened
  edit            \* edit-config run: the handler, its entries, its backend calls and replies

codecVars == <<cPayloads, cStream, cBuf, cPc, cFrames, cErr, cDropped, cCut>>

negVars == <<npc, reqs, reqsClosed, served, subsysChan, matchedLate>>

commVars == <<wire, wireEnd, nSent, rfBuf, clientHello, reqLog, pending, out, readErr>>

sessVars == <<ctxDone, sessionCounter, crashed, pc, sessionID, result, channelOpen>>

idVars == <<idCalls, idOrder>>

dispVars == <<dIn, dResp, dOut>>

srvVars == <<mainPc, acceptPc, conn, chans>>

vars == <<cPayloads, cStream, cBuf, cPc, cFrames, cErr, cDropped, cCut,
          ctxDone, sessionCounter, crashed, pc, npc, reqs, reqsClosed, served,
          subsysChan, matchedLate, sessionID, wire, wireEnd, nSent, rfBuf,
          clientHello, reqLog, pending, out, readErr, result, channelOpen,
          idCalls, idOrder, dIn, dResp, dOut, mainPc, acceptPc, conn, chans, edit>>

\* ------------------------------------------------------------------------
\* Codec runs: a client writes W1 terminator W2 terminator ... and closes;
\* readFrame is called until it returns an error.  channel.Read returns
\* whatever has arrived so far (at most len(readBuf) bytes), so every
\* non-empty prefix of the unread stream is a possible chunk.
\* ------------------------------------------------------------------------
CodecAlphabet == {"a", " ", "]", ">"}

RECURSIVE StringsUpTo(_)
StringsUpTo(n) ==
  IF n = 0 THEN {""}
  ELSE LET shorter == StringsUpTo(n - 1)
       IN  shorter \cup {s \o ch : s \in shorter, ch \in CodecAlphabet}

RECURSIVE TotalLen(_)
TotalLen(ws) == IF ws = <<>> THEN 0 ELSE Len(Head(ws)) + TotalLen(Tail(ws))

\* the wire image of a payload sequence: each payload followed by the terminator
RECURSIVE Wire(_)
Wire(ws) == IF ws = <<>> THEN "" ELSE Head(ws) \o FrameEnd \o Wire(Tail(ws))

\* the sequences of at most k payloads of at most budget bytes in all
RECURSIVE PayloadSeqs(_, _)
PayloadSeqs(k, budget) ==
  IF k = 0 THEN {<<>>}
  ELSE {<<>>} \cup
       UNION {{<<p>> \o rest : rest \in PayloadSeqs(k - 1, budget - Len(p))} :
                p \in StringsUpTo(budget)}

CodecInputs == PayloadSeqs(MaxCodecFrames, MaxPayloadBytes) \ {<<>>}

\* bound: number of goroutines that call generateSessionID concurrently
MaxCallers == 3

Callers == 1..MaxCallers

\* no goroutine has called generateSessionID
IdsIdle ==
  /\ idCalls = [g \in Callers |-> [pc |-> "start", val |-> Uint32(0, 0), ret |-> ""]]
  /\ idOrder = <<>>

\* an input of a dispatcher run: for a request frame, the parts it is made of
\* and its bytes; for a direct call of buildErrorResponse, the error message
DispatchInput(kind, root, id, op, body, text) ==
  [kind |-> kind, root |-> root, id |-> id, op |-> op, body |-> body, text |-> text]

\* no dispatcher run
DispatchIdle ==
  /\ dIn = DispatchInput("none", "", <<>>, "", "", "")
  /\ dResp = NoReply
  /\ dOut = ""

\* bound: number of TCP connections clients make to the server
MaxConns == 2

\* bound: number of channels the clients open, over all connections
MaxChannels == 2

Conns == 1..MaxConns

\* the server has started and nothing has connected: main waits for the
\* signal, the accept loop is in listener.Accept
ServerIdle ==
  /\ mainPc = "serving"
  /\ acceptPc = "accepting"
  /\ conn = [c \in Conns |-> "idle"]
  /\ chans = [c \in Conns |-> <<>>]

\* an edit-config run: the handler the dispatcher invokes, the entries of
\* the request (each a sequence of settings, TRUE for one that passes the
\* handler's validation), the position of the loop, the backend calls
\* issued, the replies returned and the number of times it was dispatched
EditRun(handler, entries) ==
  [handler    |-> handler,
   entries    |-> entries,
   pc         |-> "idle",
   entry      |-> 1,
   setting    |-> 1,
   calls      |-> <<>>,
   replies    |-> <<>>,
   dispatched |-> 0]

\* no edit-config request
EditIdle == edit = EditRun("", <<>>)

\* no channel accepted, nothing sent or received
FlowIdle ==
  /\ ctxDone = FALSE
  /\ crashed = FALSE
  /\ pc = "none"
  /\ npc = "none"
  /\ reqs = <<>>
  /\ reqsClosed = FALSE
  /\ served = <<>>
  /\ subsysChan = <<>>
  /\ matchedLate = FALSE
  /\ sessionID = ""
  /\ wire = ""
  /\ wireEnd = "open"
  /\ nSent = 0
  /\ rfBuf = ""
  /\ clientHello = <<>>
  /\ reqLog = <<>>
  /\ pending = NoReply
  /\ out = <<>>
  /\ readErr = ""
  /\ result = ""
  /\ channelOpen = FALSE

\* the session flow before the connection has accepted a channel
SessionIdle ==
  /\ sessionCounter = InitialSessionCounter
  /\ IdsIdle
  /\ DispatchIdle
  /\ ServerIdle
  /\ EditIdle
  /\ FlowIdle

CodecInit ==
  /\ cPayloads \in CodecInputs
  /\ cStream = Wire(cPayloads)
  /\ cBuf = ""
  /\ cPc = "idle"
  /\ cFrames = <<>>
  /\ cErr = ""
  /\ cDropped = ""
  /\ cCut = FALSE
  /\ SessionIdle

\* offset pos of the wire image lies strictly inside one of its terminators
InsideTerminator(ws, pos) ==
  \E k \in 1..Len(ws) :
    LET payloadEnd == Len(Wire(SubSeq(ws, 1, k))) - Len(FrameEnd)
    IN  pos > payloadEnd /\ pos < payloadEnd + Len(FrameEnd)

\* a caller enters readFrame: "var buffer bytes.Buffer" starts empty
CodecCall ==
  /\ cPc = "idle"
  /\ cErr = ""
  /\ cPc' = "reading"
  /\ cBuf' = ""
  /\ UNCHANGED <<cPayloads, cStream, cFrames, cErr, cDropped, cCut>>
  /\ UNCHANGED <<sessVars, negVars, commVars, idVars, dispVars, srvVars, edit>>

\* channel.Read returns n bytes; the loop body of readFrame runs once
CodecRead(n) ==
  /\ cPc = "reading"
  /\ n \in 1..Min(Len(cStream), ReadBufSize)
  /\ LET r == readFrameStep(cBuf, SliceTo(cStream, n))
     IN  /\ cStream' = SliceFrom(cStream, n)
         /\ cCut' = (cCut \/ InsideTerminator(cPayloads, Len(Wire(cPayloads)) - Len(cStream) + n))
         /\ IF r.found
            THEN /\ cFrames' = Append(cFrames, r.message)
                 /\ cDropped' = cDropped \o r.remaining
                 /\ cBuf' = ""
                 /\ cPc' = "idle"
            ELSE /\ cBuf' = r.buffer
                 /\ UNCHANGED <<cFrames, cDropped, cPc>>
  /\ UNCHANGED <<cPayloads, cErr>>
  /\ UNCHANGED <<sessVars, negVars, commVars, idVars, dispVars, srvVars, edit>>

\* channel.Read returns io.EOF: readFrame returns (nil, err)
CodecEOF ==
  /\ cPc = "reading"
  /\ cStream = ""
  /\ cErr' = "EOF"
  /\ cPc' = "idle"
  /\ cBuf' = ""
  /\ UNCHANGED <<cPayloads, cStream, cFrames, cDropped, cCut>>
  /\ UNCHANGED <<sessVars, negVars, commVars, idVars, dispVars, srvVars, edit>>

CodecNext ==
  \/ CodecCall
  \/ \E n \in 1..(MaxPayloadBytes + MaxCodecFrames * Len(FrameEnd)) : CodecRead(n)
  \/ CodecEOF

SpecCodec == CodecInit /\ [][CodecNext]_vars

\* ------------------------------------------------------------------------
\* Session flow of one channel of one connection: handleConnection accepts
\* the channel and starts handleNETCONFSession, which starts the negotiator
\* goroutine, waits in the select and then runs
\* handleNETCONFCommunication.  The client and the deadline timer are the
\* environment.
\* ------------------------------------------------------------------------
\* bound: number of requests the client sends on the channel's request stream
MaxReqs == 2
\* bound: number of data packets the client sends on the channel
MaxPackets == 3

\* an ssh.Request: Payload of a subsystem request is a 4-byte length (written
\* here as four digits) followed by the subsystem name
Request(type, payload) == [Type |-> type, Payload |-> payload]

ClientRequests ==
  { Request("subsystem", "0007netconf"),
    Request("subsystem", "0004sftp"),
    Request("subsystem", "00"),
    Request("shell", "") }

\* the frames a client writes
HelloFrame == "<hello/>"
GetVlansFrame == "<rpc message-id=\"7\"><get><vlans xmlns=\"yang:vlan\"/></get></rpc>"
PrologFrame == "<?xml version=\"1.0\"?><rpc message-id=\"8\"><get></get></rpc>"
BareRpcFrame == "<rpc/>"

\* the packets a client sends: whole frames (one with a line feed after the
\* terminator) and the first part of a frame, cut inside the terminator
ClientPackets ==
  { HelloFrame \o FrameEnd,
    GetVlansFrame \o FrameEnd \o "\n",
    PrologFrame \o FrameEnd,
    BareRpcFrame \o "]]" }

\* generateSessionID returns the counter after atomic.AddUint32(&sessionCounter, 1),
\* formatted with %d
generateSessionID == FormatUint32(AddUint32(sessionCounter, 1))

\* variant of ServerHello: a hello that does not carry the session's identifier
ServerHello_noSessionID(id) ==
  [kind |-> "hello", sessionID |-> "", frameEnd |-> FrameEnd, body |-> NoReply]

\* the server hello written for a session
ServerHello(id) ==
  [kind |-> "hello", sessionID |-> id, frameEnd |-> FrameEnd, body |-> NoReply]

\* a response written to the channel: first tells the reply to the initial
\* client frame from the replies of the main loop
Written(first, response) ==
  [kind      |-> IF first THEN "first-reply" ELSE "reply",
   sessionID |-> "",
   frameEnd  |-> response.frameEnd,
   body      |-> response]

\* variant of Return: the flow returns and leaves the channel open
Return_noClose(res) ==
  /\ pc' = "closed"
  /\ result' = res
  /\ UNCHANGED channelOpen

\* handleNETCONFSession returns with outcome res; its deferred
\* channel.Close() runs on every return
Return(res) ==
  /\ pc' = "closed"
  /\ result' = res
  /\ channelOpen' = FALSE

\* handleConnection accepts a channel of type "session" and starts
\* handleNETCONFSession, which draws its sessionID and starts the negotiator
AcceptChannel ==
  /\ ~crashed
  /\ pc = "none"
  /\ sessionCounter' = AddUint32(sessionCounter, 1)
  /\ sessionID' = generateSessionID
  /\ pc' = "select"
  /\ npc' = "range"
  /\ channelOpen' = TRUE
  /\ UNCHANGED <<ctxDone, crashed, result, reqs, reqsClosed, served, subsysChan, matchedLate>>
  /\ UNCHANGED <<commVars, codecVars, idVars, dispVars, srvVars, edit>>

\* the timer of context.WithTimeout fires; ctx is read only by the select of
\* handleNETCONFSession, so a later firing changes nothing
Deadline ==
  /\ ~crashed
  /\ ~ctxDone
  /\ pc \in {"none", "select"}
  /\ ctxDone' = TRUE
  /\ UNCHANGED <<sessionCounter, crashed, pc, sessionID, result, channelOpen>>
  /\ UNCHANGED <<negVars, commVars, codecVars, idVars, dispVars, srvVars, edit>>

\* the client sends a channel request, one at a time: it asks for a reply
\* and sends the next request once the previous one has been taken
ClientRequest(r) ==
  /\ ~crashed
  /\ pc \notin {"none", "closed"}
  /\ ~reqsClosed
  /\ reqs = <<>>
  /\ Len(served) < MaxReqs
  /\ reqs' = Append(reqs, r)
  /\ UNCHANGED <<npc, reqsClosed, served, subsysChan, matchedLate>>
  /\ UNCHANGED <<sessVars, commVars, codecVars, idVars, dispVars, srvVars, edit>>

\* the client sends data on the channel; data sent before the server hello
\* waits in the channel's buffer like data sent just after it
ClientSend(p) ==
  /\ ~crashed
  /\ pc \in {"read-hello", "write-first", "read-request", "write-reply"}
  /\ wireEnd = "open"
  /\ nSent < MaxPackets
  /\ wire' = wire \o p
  /\ nSent' = nSent + 1
  /\ UNCHANGED <<wireEnd, rfBuf, clientHello, reqLog, pending, out, readErr>>
  /\ UNCHANGED <<sessVars, negVars, codecVars, idVars, dispVars, srvVars, edit>>

\* the client closes the channel (how = "eof") or the connection breaks
\* (how = "err"): the request stream is closed, pending data can still be read
ClientClose(how) ==
  /\ ~crashed
  /\ pc \notin {"none", "closed"}
  /\ wireEnd = "open"
  /\ wireEnd' = how
  /\ reqsClosed' = TRUE
  /\ UNCHANGED <<npc, reqs, served, subsysChan, matchedLate>>
  /\ UNCHANGED <<wire, nSent, rfBuf, clientHello, reqLog, pending, out, readErr>>
  /\ UNCHANGED <<sessVars, codecVars, idVars, dispVars, srvVars, edit>>

\* the subsystem name of a request payload: req.Payload[4:], trimmed
SubsystemName(payload) == TrimSpace(SliceFrom(payload, 4))

\* one iteration of "for req := range reqs" whose request is the netconf
\* subsystem: req.Reply(true, nil); subsysChan <- true; return
NegotiatorMatch ==
  /\ ~crashed
  /\ npc = "range"
  /\ reqs # <<>>
  /\ Head(reqs).Type = "subsystem"
  /\ Len(Head(reqs).Payload) >= 4
  /\ SubsystemName(Head(reqs).Payload) = "netconf"
  /\ served' = Append(served, [req |-> Head(reqs), ok |-> TRUE])
  /\ reqs' = Tail(reqs)
  /\ subsysChan' = Append(subsysChan, TRUE)
  /\ matchedLate' = ctxDone
  /\ npc' = "returned"
  /\ UNCHANGED reqsClosed
  /\ UNCHANGED <<sessVars, commVars, codecVars, idVars, dispVars, srvVars, edit>>

\* one iteration whose request is anything else: req.Reply(false, nil)
NegotiatorReject ==
  /\ ~crashed
  /\ npc = "range"
  /\ reqs # <<>>
  /\ \/ Head(reqs).Type # "subsystem"
     \/ /\ Len(Head(reqs).Payload) >= 4
        /\ SubsystemName(Head(reqs).Payload) # "netconf"
  /\ served' = Append(served, [req |-> Head(reqs), ok |-> FALSE])
  /\ reqs' = Tail(reqs)
  /\ UNCHANGED <<npc, reqsClosed, subsysChan, matchedLate>>
  /\ UNCHANGED <<sessVars, commVars, codecVars, idVars, dispVars, srvVars, edit>>

\* one iteration whose subsystem request has a payload shorter than four
\* bytes: req.Payload[4:] panics, nothing recovers, the process exits
NegotiatorPanic ==
  /\ ~crashed
  /\ npc = "range"
  /\ reqs # <<>>
  /\ Head(reqs).Type = "subsystem"
  /\ Len(Head(reqs).Payload) < 4
  /\ crashed' = TRUE
  /\ npc' = "panicked"
  /\ reqs' = Tail(reqs)
  /\ UNCHANGED <<reqsClosed, served, subsysChan, matchedLate>>
  /\ UNCHANGED <<ctxDone, sessionCounter, pc, sessionID, result, channelOpen>>
  /\ UNCHANGED <<commVars, codecVars, idVars, dispVars, srvVars, edit>>

\* the range loop ends because the request stream was closed: subsysChan <- false
NegotiatorEnd ==
  /\ ~crashed
  /\ npc = "range"
  /\ reqs = <<>>
  /\ reqsClosed
  /\ subsysChan' = Append(subsysChan, FALSE)
  /\ npc' = "returned"
  /\ UNCHANGED <<reqs, reqsClosed, served, matchedLate>>
  /\ UNCHANGED <<sessVars, commVars, codecVars, idVars, dispVars, srvVars, edit>>

\* select, case success := <-subsysChan
SelectSubsys ==
  /\ ~crashed
  /\ pc = "select"
  /\ subsysChan # <<>>
  /\ subsysChan' = Tail(subsysChan)
  /\ IF Head(subsysChan)
     THEN pc' = "hello" /\ UNCHANGED <<result, channelOpen>>
     ELSE Return("no-subsystem")
  /\ UNCHANGED <<ctxDone, sessionCounter, crashed, sessionID>>
  /\ UNCHANGED <<npc, reqs, reqsClosed, served, matchedLate>>
  /\ UNCHANGED <<commVars, codecVars, idVars, dispVars, srvVars, edit>>

\* select, case <-ctx.Done()
SelectTimeout ==
  /\ ~crashed
  /\ pc = "select"
  /\ ctxDone
  /\ Return("timeout")
  /\ UNCHANGED <<ctxDone, sessionCounter, crashed, sessionID>>
  /\ UNCHANGED <<negVars, commVars, codecVars, idVars, dispVars, srvVars, edit>>

\* channel.Write fails once the connection is broken
WriteFails == wireEnd = "err"

\* handleNETCONFCommunication writes the server hello and enters readFrame
WriteHello ==
  /\ ~crashed
  /\ pc = "hello"
  /\ IF WriteFails
     THEN /\ Return("failed to send server hello")
          /\ UNCHANGED <<out, rfBuf>>
     ELSE /\ out' = Append(out, ServerHello(sessionID))
          /\ pc' = "read-hello"
          /\ rfBuf' = ""
          /\ UNCHANGED <<result, channelOpen>>
  /\ UNCHANGED <<ctxDone, sessionCounter, crashed, sessionID>>
  /\ UNCHANGED <<wire, wireEnd, nSent, clientHello, reqLog, pending, readErr>>
  /\ UNCHANGED <<negVars, codecVars, idVars, dispVars, srvVars, edit>>

\* the chunk channel.Read returns: what has arrived, at most len(readBuf) bytes
NextChunk == SliceTo(wire, Min(Len(wire), ReadBufSize))

\* readFrame(channel) for the client hello: one channel.Read that returns data
ReadHelloChunk ==
  /\ ~crashed
  /\ pc = "read-hello"
  /\ wire # ""
  /\ \E r \in {readFrameStep(rfBuf, NextChunk)} :
         /\ wire' = SliceFrom(wire, Len(NextChunk))
         /\ IF r.found
            THEN /\ rfBuf' = ""
                 /\ clientHello' = <<r.message>>
                 /\ IF HasPrefix(r.message, "<rpc")
                    THEN /\ pending' = generateResponse(r.message)
                         /\ pc' = "write-first"
                    ELSE /\ pc' = "read-request"
                         /\ UNCHANGED pending
            ELSE /\ rfBuf' = r.buffer
                 /\ UNCHANGED <<clientHello, pending, pc>>
  /\ UNCHANGED <<ctxDone, sessionCounter, crashed, sessionID, result, channelOpen>>
  /\ UNCHANGED <<wireEnd, nSent, reqLog, out, readErr>>
  /\ UNCHANGED <<negVars, codecVars, idVars, dispVars, srvVars, edit>>

\* readFrame(channel) for the client hello: channel.Read returns an error
ReadHelloError ==
  /\ ~crashed
  /\ pc = "read-hello"
  /\ wire = ""
  /\ wireEnd # "open"
  /\ readErr' = wireEnd
  /\ Return("error reading client hello")
  /\ UNCHANGED <<ctxDone, sessionCounter, crashed, sessionID>>
  /\ UNCHANGED <<wire, wireEnd, nSent, rfBuf, clientHello, reqLog, pending, out>>
  /\ UNCHANGED <<negVars, codecVars, idVars, dispVars, srvVars, edit>>

\* channel.Write(response) for the initial client RPC
WriteFirstResponse ==
  /\ ~crashed
  /\ pc = "write-first"
  /\ IF WriteFails
     THEN /\ Return("failed to send response to initial client RPC")
          /\ UNCHANGED <<out, pending, rfBuf>>
     ELSE /\ out' = Append(out, Written(TRUE, pending))
          /\ pending' = NoReply
          /\ pc' = "read-request"
          /\ rfBuf' = ""
          /\ UNCHANGED <<result, channelOpen>>
  /\ UNCHANGED <<ctxDone, sessionCounter, crashed, sessionID>>
  /\ UNCHANGED <<wire, wireEnd, nSent, clientHello, reqLog, readErr>>
  /\ UNCHANGED <<negVars, codecVars, idVars, dispVars, srvVars, edit>>

\* variant of ReadRequestChunk: the loop reads the channel again while the
\* response to the previous request is still unwritten
ReadRequestChunk_pipelined ==
  /\ ~crashed
  /\ pc \in {"read-request", "write-reply"}
  /\ wire # ""
  /\ \E r \in {readFrameStep(rfBuf, NextChunk)} :
         /\ wire' = SliceFrom(wire, Len(NextChunk))
         /\ IF r.found
            THEN /\ rfBuf' = ""
                 /\ reqLog' = Append(reqLog, r.message)
                 /\ pending' = generateResponse(r.message)
                 /\ pc' = "write-reply"
            ELSE /\ rfBuf' = r.buffer
                 /\ UNCHANGED <<reqLog, pending, pc>>
  /\ UNCHANGED <<ctxDone, sessionCounter, crashed, sessionID, result, channelOpen>>
  /\ UNCHANGED <<wireEnd, nSent, clientHello, out, readErr>>
  /\ UNCHANGED <<negVars, codecVars, idVars, dispVars, srvVars, edit>>

\* main loop, readFrame(channel): one channel.Read that returns data; when
\* the frame is complete generateResponse(request) is computed
ReadRequestChunk ==
  /\ ~crashed
  /\ pc = "read-request"
  /\ wire # ""
  /\ \E r \in {readFrameStep(rfBuf, NextChunk)} :
         /\ wire' = SliceFrom(wire, Len(NextChunk))
         /\ IF r.found
            THEN /\ rfBuf' = ""
                 /\ reqLog' = Append(reqLog, r.message)
                 /\ pending' = generateResponse(r.message)
                 /\ pc' = "write-reply"
            ELSE /\ rfBuf' = r.buffer
                 /\ UNCHANGED <<reqLog, pending, pc>>
  /\ UNCHANGED <<ctxDone, sessionCounter, crashed, sessionID, result, channelOpen>>
  /\ UNCHANGED <<wireEnd, nSent, clientHello, out, readErr>>
  /\ UNCHANGED <<negVars, codecVars, idVars, dispVars, srvVars, edit>>

\* variant of ReadRequestError: io.EOF is reported like any other read error
ReadRequestError_eofIsError ==
  /\ ~crashed
  /\ pc = "read-request"
  /\ wire = ""
  /\ wireEnd # "open"
  /\ readErr' = wireEnd
  /\ Return("error reading RPC request")
  /\ UNCHANGED <<ctxDone, sessionCounter, crashed, sessionID>>
  /\ UNCHANGED <<wire, wireEnd, nSent, rfBuf, clientHello, reqLog, pending, out>>
  /\ UNCHANGED <<negVars, codecVars, idVars, dispVars, srvVars, edit>>

\* main loop, readFrame(channel): channel.Read returns an error, readFrame
\* returns (nil, err); io.EOF ends the session with nil, another error with
\* "error reading RPC request"
ReadRequestError ==
  /\ ~crashed
  /\ pc = "read-request"
  /\ wire = ""
  /\ wireEnd # "open"
  /\ readErr' = wireEnd
  /\ Return(IF wireEnd = "eof" THEN "nil" ELSE "error reading RPC request")
  /\ UNCHANGED <<ctxDone, sessionCounter, crashed, sessionID>>
  /\ UNCHANGED <<wire, wireEnd, nSent, rfBuf, clientHello, reqLog, pending, out>>
  /\ UNCHANGED <<negVars, codecVars, idVars, dispVars, srvVars, edit>>

\* variant of WriteResponse: the loop goes back to reading without writing
\* the response
WriteResponse_unanswered ==
  /\ ~crashed
  /\ pc = "write-reply"
  /\ IF WriteFails
     THEN /\ Return("failed to send RPC response")
          /\ UNCHANGED <<out, pending, rfBuf>>
     ELSE /\ pending' = NoReply
          /\ pc' = "read-request"
          /\ rfBuf' = ""
          /\ UNCHANGED <<out, result, channelOpen>>
  /\ UNCHANGED <<ctxDone, sessionCounter, crashed, sessionID>>
  /\ UNCHANGED <<wire, wireEnd, nSent, clientHello, reqLog, readErr>>
  /\ UNCHANGED <<negVars, codecVars, idVars, dispVars, srvVars, edit>>

\* main loop, channel.Write(response)
WriteResponse ==
  /\ ~crashed
  /\ pc = "write-reply"
  /\ IF WriteFails
     THEN /\ Return("failed to send RPC response")
          /\ UNCHANGED <<out, pending, rfBuf>>
     ELSE /\ out' = Append(out, Written(FALSE, pending))
          /\ pending' = NoReply
          /\ pc' = "read-request"
          /\ rfBuf' = ""
          /\ UNCHANGED <<result, channelOpen>>
  /\ UNCHANGED <<ctxDone, sessionCounter, crashed, sessionID>>
  /\ UNCHANGED <<wire, wireEnd, nSent, clientHello, reqLog, readErr>>
  /\ UNCHANGED <<negVars, codecVars, idVars, dispVars, srvVars, edit>>

Init ==
  /\ cPayloads = <<>>
  /\ cStream = ""
  /\ cBuf = ""
  /\ cPc = "idle"
  /\ cFrames = <<>>
  /\ cErr = ""
  /\ cDropped = ""
  /\ cCut = FALSE
  /\ SessionIdle

Next ==
  \/ AcceptChannel
  \/ Deadline
  \/ \E r \in ClientRequests : ClientRequest(r)
  \/ \E p \in ClientPackets : ClientSend(p)
  \/ \E how \in {"eof", "err"} : ClientClose(how)
  \/ NegotiatorMatch
  \/ NegotiatorReject
  \/ NegotiatorPanic
  \/ NegotiatorEnd
  \/ SelectSubsys
  \/ SelectTimeout
  \/ WriteHello
  \/ ReadHelloChunk
  \/ ReadHelloError
  \/ WriteFirstResponse
  \/ ReadRequestChunk
  \/ ReadRequestError
  \/ WriteResponse

Spec == Init /\ [][Next]_vars

\* a step of one of the program's goroutines
ProgramNext ==
  \/ NegotiatorMatch \/ NegotiatorReject \/ NegotiatorPanic \/ NegotiatorEnd
  \/ SelectSubsys \/ SelectTimeout
  \/ WriteHello
  \/ ReadHelloChunk \/ ReadHelloError
  \/ WriteFirstResponse
  \/ ReadRequestChunk \/ ReadRequestError
  \/ WriteResponse

\* the Go scheduler runs a goroutine that can take a step; the client and
\* the timer are not obliged to act.  Every run of the model is finite, so
\* this is as strong as fairness for each goroutine.
FairSpec == Spec /\ WF_vars(ProgramNext)

\* ------------------------------------------------------------------------
\* Concurrent calls of generateSessionID: each goroutine of Callers calls it
\* once; atomic.AddUint32 is one step, the formatting of its result another.
\* ------------------------------------------------------------------------
\* the codec run is not used
CodecIdle ==
  /\ cPayloads = <<>>
  /\ cStream = ""
  /\ cBuf = ""
  /\ cPc = "idle"
  /\ cFrames = <<>>
  /\ cErr = ""
  /\ cDropped = ""
  /\ cCut = FALSE

\* the values the counter holds when the calls start: its initial value, a
\* value whose low half is about to carry, and a value two below 2^32
IdStartCounters ==
  {InitialSessionCounter, Uint32(0, Limb - 2), Uint32(Limb - 1, Limb - 2)}

IdsInit ==
  /\ CodecIdle
  /\ FlowIdle
  /\ IdsIdle
  /\ DispatchIdle
  /\ ServerIdle
  /\ EditIdle
  /\ sessionCounter \in IdStartCounters

\* variant of IdAdd: the caller gets the incremented value but its store to
\* the counter is lost
IdAdd_lostUpdate(g) ==
  /\ idCalls[g].pc = "start"
  /\ idCalls' = [idCalls EXCEPT ![g] =
                   [pc |-> "added", val |-> AddUint32(sessionCounter, 1), ret |-> ""]]
  /\ idOrder' = Append(idOrder, g)
  /\ UNCHANGED <<sessVars, negVars, commVars, codecVars, dispVars, srvVars, edit>>

\* atomic.AddUint32(&sessionCounter, 1) by goroutine g: one atomic step that
\* stores the new value and returns it
IdAdd(g) ==
  /\ idCalls[g].pc = "start"
  /\ sessionCounter' = AddUint32(sessionCounter, 1)
  /\ idCalls' = [idCalls EXCEPT ![g] =
                   [pc |-> "added", val |-> AddUint32(sessionCounter, 1), ret |-> ""]]
  /\ idOrder' = Append(idOrder, g)
  /\ UNCHANGED <<ctxDone, crashed, pc, sessionID, result, channelOpen>>
  /\ UNCHANGED <<negVars, commVars, codecVars, dispVars, srvVars, edit>>

\* goroutine g formats the value it got and returns
IdReturn(g) ==
  /\ idCalls[g].pc = "added"
  /\ idCalls' = [idCalls EXCEPT ![g] =
                   [pc |-> "done", val |-> @.val, ret |-> FormatUint32(@.val)]]
  /\ UNCHANGED idOrder
  /\ UNCHANGED <<sessVars, negVars, commVars, codecVars, dispVars, srvVars, edit>>

IdsNext ==
  \/ \E g \in Callers : IdAdd(g)
  \/ \E g \in Callers : IdReturn(g)

SpecIds == IdsInit /\ [][IdsNext]_vars

\* ------------------------------------------------------------------------
\* Dispatcher runs: generateResponse is called on one request frame, or
\* buildErrorResponse on one error message.  A request frame is assembled
\* from an optional XML declaration, a root element with or without a
\* message-id attribute, an operation element and its content.
\* ------------------------------------------------------------------------
\* bound: length of the error messages given to buildErrorResponse
MaxMsgLen == 3

XmlProlog == "<?xml version=\"1.0\" encoding=\"UTF-8\"?>"

RequestProlog == {"", XmlProlog}

RequestRoot == {"rpc", "hello"}

\* the message-id attribute of the root element: none, or one value
RequestId == {<<>>, <<"7">>, <<"42">>}

\* the operation element: one of the three operations, closed or left
\* without its closing tag, or another element
RequestOp ==
  {"get", "get-config", "edit-config", "get-unclosed", "edit-config-unclosed", "none"}

\* the content of the operation element: nothing, a filter or configuration
\* of a registered data model, one of an unknown model, and content that
\* has a message-id attribute of its own, and content that quotes the tags of
\* another operation, the markers of two data models in either order, and
\* the configuration of port channels
RequestBody ==
  {"",
   "<vlans xmlns=\"yang:vlan\"/>",
   "<vlans xmlns=\"" \o VlanNamespace \o "\"/>",
   "<vlans xmlns=\"yang:get_vlan\"/>",
   "<vlans xmlns=\"yang:set_vlan\"><vlan/></vlans>",
   "<ssh xmlns=\"" \o SshConfigNamespace \o "\"/>",
   "<interfaces xmlns=\"" \o InterfaceNamespace \o "\"/>",
   "<foo xmlns=\"urn:unknown\"/>",
   "<foo message-id=\"9\"/>",
   "<foo><get></get></foo>",
   "<vlans xmlns=\"yang:vlan\"/><interfaces xmlns=\"" \o InterfaceNamespace \o "\"/>",
   "<interfaces xmlns=\"" \o InterfaceNamespace \o "\"/><vlans xmlns=\"yang:vlan\"/>",
   "<ip-interfaces xmlns=\"yang:get_ip_interface\"/><stp-global-config xmlns=\""
     \o StpGlobalConfigNamespace \o "\"/>",
   "<vlans xmlns=\"yang:set_vlan\"><vlan><name><get></get></name></vlan></vlans>",
   "<port-channels xmlns=\"yang:set_port_channel\"><port-channel/></port-channels>"}

\* the bytes of a request frame
Frame(prolog, root, id, op, body) ==
  prolog
  \o "<" \o root
  \o (IF id = <<>> THEN "" ELSE " message-id=\"" \o id[1] \o "\"")
  \o ">"
  \o (CASE op = "get"         -> "<get>" \o body \o "</get>"
        [] op = "get-config"  -> "<get-config>" \o body \o "</get-config>"
        [] op = "edit-config" -> "<edit-config><config>" \o body \o "</config></edit-config>"
        [] op = "get-unclosed" -> "<get>" \o body
        [] op = "edit-config-unclosed" -> "<edit-config><config>" \o body \o "</config>"
        [] OTHER              -> "<lock>" \o body \o "</lock>")
  \o "</" \o root \o ">"

DispatchRequests ==
  {DispatchInput("request", root, id, op, body, Frame(prolog, root, id, op, body)) :
     prolog \in RequestProlog, root \in RequestRoot, id \in RequestId,
     op \in RequestOp, body \in RequestBody}

\* the characters of error messages: the three that are escaped and one that is not
MsgAlphabet == {"<", ">", "&", "a"}

RECURSIVE MsgsUpTo(_)
MsgsUpTo(n) ==
  IF n = 0 THEN {""}
  ELSE LET shorter == MsgsUpTo(n - 1)
       IN  shorter \cup {m \o ch : m \in shorter, ch \in MsgAlphabet}

ErrorMessages ==
  {DispatchInput("message", "", <<>>, "", "", m) : m \in MsgsUpTo(MaxMsgLen)}

DispatchInit ==
  /\ CodecIdle
  /\ FlowIdle
  /\ IdsIdle
  /\ ServerIdle
  /\ EditIdle
  /\ sessionCounter = InitialSessionCounter
  /\ dIn \in DispatchRequests \cup ErrorMessages
  /\ dResp = NoReply
  /\ dOut = ""

\* the session loop calls generateResponse(request); a handler it invokes
\* returns along one of its paths
Dispatch ==
  /\ dIn.kind = "request"
  /\ dResp = NoReply
  /\ \E r \in {generateResponse(dIn.text)} :
       /\ dResp' = r
       /\ \E path \in (IF r.kind = "handler" THEN HandlerPaths ELSE {"none"}) :
            dOut' = ResponseBytes(r, path)
  /\ UNCHANGED dIn
  /\ UNCHANGED <<sessVars, negVars, commVars, codecVars, idVars, srvVars, edit>>

\* a call of buildErrorResponse with an arbitrary message
BuildError ==
  /\ dIn.kind = "message"
  /\ dResp = NoReply
  /\ \E r \in {buildErrorResponse(FrameEnd, "1", "operation-failed", dIn.text)} :
       /\ dResp' = r
       /\ dOut' = ErrorBytes(r)
  /\ UNCHANGED dIn
  /\ UNCHANGED <<sessVars, negVars, commVars, codecVars, idVars, srvVars, edit>>

DispatchNext ==
  \/ Dispatch
  \/ BuildError

SpecDispatch == DispatchInit /\ [][DispatchNext]_vars

\* ------------------------------------------------------------------------
\* Server runs: main, the accept loop, one handleConnection goroutine per
\* connection and one handleNETCONFSession goroutine per accepted channel.
\* A session is followed from its identifier to its end; what it answers
\* is the subject of the session and dispatcher runs above.
\* ------------------------------------------------------------------------
\* the variables of the single-session runs other than the counter
flowVars == <<ctxDone, crashed, pc, sessionID, result, channelOpen>>

\* the types of channel a client opens
ChannelTypes == {"session", "direct-tcpip"}

PortStatusCapability == "yang:get_port_status"
PortDescriptionCapability == "yang:get_port_description"
PortSpeedCapability == "yang:get_port_speed"
BaseCapability == "urn:ietf:params:netconf:base:1.0"

\* the hello handleNETCONFCommunication writes: its <capability> elements
\* in order, its <session-id> and the frame end that follows it
serverHello(id, frameEnd) ==
  [capabilities |-> << BaseCapability,
                       VlanNamespace,
                       InterfaceNamespace,
                       SshConfigNamespace,
                       TelnetConfigNamespace,
                       IpInterfaceNamespace,
                       PortConfigNamespace,
                       StpGlobalConfigNamespace,
                       PortStatusCapability,
                       PortDescriptionCapability,
                       PortSpeedCapability >>,
   sessionID    |-> id,
   frameEnd     |-> frameEnd]

\* no hello has been written
NoHello == [capabilities |-> <<>>, sessionID |-> "", frameEnd |-> ""]

\* a channel: its type, where its handling is, the session identifier its
\* goroutine has generated ("" if none), whether the session has answered
\* a request, and the hello the server has written on it
Channel(type, st, id, answered) ==
  [type |-> type, st |-> st, id |-> id, answered |-> answered, hello |-> NoHello]

\* the number of channels opened on the connections 1..c
RECURSIVE ChannelsOpened(_)
ChannelsOpened(c) == IF c = 0 THEN 0 ELSE Len(chans[c]) + ChannelsOpened(c - 1)

ServerInit ==
  /\ CodecIdle
  /\ FlowIdle
  /\ IdsIdle
  /\ DispatchIdle
  /\ ServerIdle
  /\ EditIdle
  /\ sessionCounter = InitialSessionCounter

\* a client connects to the listening port (the connections are used in
\* the order of their numbers)
Connect(c) ==
  /\ mainPc = "serving"
  /\ conn[c] = "idle"
  /\ c > 1 => conn[c - 1] # "idle"
  /\ conn' = [conn EXCEPT ![c] = "queued"]
  /\ UNCHANGED <<mainPc, acceptPc, chans, sessionCounter>>
  /\ UNCHANGED <<flowVars, negVars, commVars, codecVars, idVars, dispVars, edit>>

\* an accept loop that performs the handshake itself: it takes the next
\* connection only when no handshake is under way
Accept_afterHandshake(c) ==
  /\ mainPc = "serving"
  /\ acceptPc = "accepting"
  /\ conn[c] = "queued"
  /\ \A d \in Conns : conn[d] # "handshake"
  /\ conn' = [conn EXCEPT ![c] = "handshake"]
  /\ UNCHANGED <<mainPc, acceptPc, chans, sessionCounter>>
  /\ UNCHANGED <<flowVars, negVars, commVars, codecVars, idVars, dispVars, edit>>

\* the accept loop: listener.Accept returns a connection and
\* go handleConnection(conn, config) starts its goroutine, which begins
\* with ssh.NewServerConn
Accept(c) ==
  /\ mainPc = "serving"
  /\ acceptPc = "accepting"
  /\ conn[c] = "queued"
  /\ conn' = [conn EXCEPT ![c] = "handshake"]
  /\ UNCHANGED <<mainPc, acceptPc, chans, sessionCounter>>
  /\ UNCHANGED <<flowVars, negVars, commVars, codecVars, idVars, dispVars, edit>>

\* ssh.NewServerConn returns without error: the channel loop starts
HandshakeOk(c) ==
  /\ mainPc # "exited"
  /\ conn[c] = "handshake"
  /\ conn' = [conn EXCEPT ![c] = "up"]
  /\ UNCHANGED <<mainPc, acceptPc, chans, sessionCounter>>
  /\ UNCHANGED <<flowVars, negVars, commVars, codecVars, idVars, dispVars, edit>>

\* a handshake failure that ends the server, as the start-up errors do
HandshakeFail_fatal(c) ==
  /\ mainPc # "exited"
  /\ conn[c] = "handshake"
  /\ mainPc' = "exited"
  /\ acceptPc' = "stopped"
  /\ conn' = [d \in Conns |->
                IF conn[d] \in {"queued", "handshake", "up"} THEN "killed" ELSE conn[d]]
  /\ chans' = [d \in Conns |->
                 [i \in 1..Len(chans[d]) |->
                    IF chans[d][i].st \in {"accepted", "negotiating", "established"}
                    THEN [chans[d][i] EXCEPT !.st = "killed"]
                    ELSE chans[d][i]]]
  /\ UNCHANGED sessionCounter
  /\ UNCHANGED <<flowVars, negVars, commVars, codecVars, idVars, dispVars, edit>>

\* ssh.NewServerConn returns an error: handleConnection logs it and
\* returns, and its deferred netConn.Close() drops the connection
HandshakeFail(c) ==
  /\ mainPc # "exited"
  /\ conn[c] = "handshake"
  /\ conn' = [conn EXCEPT ![c] = "failed"]
  /\ UNCHANGED <<mainPc, acceptPc, chans, sessionCounter>>
  /\ UNCHANGED <<flowVars, negVars, commVars, codecVars, idVars, dispVars, edit>>

\* a channel loop that generates the session identifier before it looks at
\* the channel type
OpenChannel_idFirst(c, type) ==
  /\ mainPc # "exited"
  /\ conn[c] = "up"
  /\ ChannelsOpened(MaxConns) < MaxChannels
  /\ sessionCounter' = AddUint32(sessionCounter, 1)
  /\ chans' = [chans EXCEPT ![c] =
                 Append(@, Channel(type,
                                   IF type = "session" THEN "negotiating" ELSE "rejected",
                                   generateSessionID, FALSE))]
  /\ UNCHANGED <<mainPc, acceptPc, conn>>
  /\ UNCHANGED <<flowVars, negVars, commVars, codecVars, idVars, dispVars, edit>>

\* one iteration of the channel loop of handleConnection: a channel whose
\* type is not "session" is rejected, a session channel is accepted and
\* go handleNETCONFSession starts its goroutine
OpenChannel(c, type) ==
  /\ mainPc # "exited"
  /\ conn[c] = "up"
  /\ ChannelsOpened(MaxConns) < MaxChannels
  /\ chans' = [chans EXCEPT ![c] =
                 Append(@, Channel(type,
                                   IF type = "session" THEN "accepted" ELSE "rejected",
                                   "", FALSE))]
  /\ UNCHANGED <<mainPc, acceptPc, conn, sessionCounter>>
  /\ UNCHANGED <<flowVars, negVars, commVars, codecVars, idVars, dispVars, edit>>

\* handleNETCONFSession begins: sessionID := generateSessionID(), then the
\* negotiator goroutine starts
SessionStart(c, i) ==
  /\ mainPc # "exited"
  /\ chans[c][i].st = "accepted"
  /\ sessionCounter' = AddUint32(sessionCounter, 1)
  /\ chans' = [chans EXCEPT ![c][i].st = "negotiating", ![c][i].id = generateSessionID]
  /\ UNCHANGED <<mainPc, acceptPc, conn>>
  /\ UNCHANGED <<flowVars, negVars, commVars, codecVars, idVars, dispVars, edit>>

\* the select receives true from subsysChan: the session is established
\* and handleNETCONFCommunication writes the server hello
NegotiationDone(c, i) ==
  /\ mainPc # "exited"
  /\ chans[c][i].st = "negotiating"
  /\ chans' = [chans EXCEPT ![c][i].st = "established",
                            ![c][i].hello = serverHello(chans[c][i].id, FrameEnd)]
  /\ UNCHANGED <<mainPc, acceptPc, conn, sessionCounter>>
  /\ UNCHANGED <<flowVars, negVars, commVars, codecVars, idVars, dispVars, edit>>

\* the select receives false from subsysChan (the client closed its
\* requests without asking for netconf), or ctx.Done (the connection
\* timeout): handleNETCONFSession returns and closes the channel
NegotiationFailed(c, i, how) ==
  /\ mainPc # "exited"
  /\ chans[c][i].st = "negotiating"
  /\ chans' = [chans EXCEPT ![c][i].st = how]
  /\ UNCHANGED <<mainPc, acceptPc, conn, sessionCounter>>
  /\ UNCHANGED <<flowVars, negVars, commVars, codecVars, idVars, dispVars, edit>>

\* the session loop reads a request and writes its reply
Serve(c, i) ==
  /\ mainPc # "exited"
  /\ chans[c][i].st = "established"
  /\ ~chans[c][i].answered
  /\ chans' = [chans EXCEPT ![c][i].answered = TRUE]
  /\ UNCHANGED <<mainPc, acceptPc, conn, sessionCounter>>
  /\ UNCHANGED <<flowVars, negVars, commVars, codecVars, idVars, dispVars, edit>>

\* the client closes the channel: readFrame returns io.EOF and the
\* session ends
ChannelClose(c, i) ==
  /\ mainPc # "exited"
  /\ chans[c][i].st = "established"
  /\ chans' = [chans EXCEPT ![c][i].st = "closed"]
  /\ UNCHANGED <<mainPc, acceptPc, conn, sessionCounter>>
  /\ UNCHANGED <<flowVars, negVars, commVars, codecVars, idVars, dispVars, edit>>

\* main receives the signal and closes the listener; connections not yet
\* accepted are refused
Shutdown ==
  /\ mainPc = "serving"
  /\ mainPc' = "closing"
  /\ conn' = [c \in Conns |-> IF conn[c] = "queued" THEN "refused" ELSE conn[c]]
  /\ UNCHANGED <<acceptPc, chans, sessionCounter>>
  /\ UNCHANGED <<flowVars, negVars, commVars, codecVars, idVars, dispVars, edit>>

\* listener.Accept returns the error of a closed listener: the accept loop
\* returns
AcceptStop ==
  /\ mainPc = "closing"
  /\ acceptPc = "accepting"
  /\ acceptPc' = "stopped"
  /\ UNCHANGED <<mainPc, conn, chans, sessionCounter>>
  /\ UNCHANGED <<flowVars, negVars, commVars, codecVars, idVars, dispVars, edit>>

\* main returns after listener.Close(): the process exits and every
\* goroutine ends with it, whatever it was doing
MainReturn ==
  /\ mainPc = "closing"
  /\ mainPc' = "exited"
  /\ acceptPc' = "stopped"
  /\ conn' = [c \in Conns |->
                IF conn[c] \in {"handshake", "up"} THEN "killed" ELSE conn[c]]
  /\ chans' = [c \in Conns |->
                 [i \in 1..Len(chans[c]) |->
                    IF chans[c][i].st \in {"accepted", "negotiating", "established"}
                    THEN [chans[c][i] EXCEPT !.st = "killed"]
                    ELSE chans[c][i]]]
  /\ UNCHANGED sessionCounter
  /\ UNCHANGED <<flowVars, negVars, commVars, codecVars, idVars, dispVars, edit>>

ServerNext ==
  \/ \E c \in Conns : Connect(c)
  \/ \E c \in Conns : Accept(c)
  \/ \E c \in Conns : HandshakeOk(c)
  \/ \E c \in Conns : HandshakeFail(c)
  \/ \E c \in Conns, type \in ChannelTypes : OpenChannel(c, type)
  \/ \E c \in Conns : \E i \in 1..Len(chans[c]) : SessionStart(c, i)
  \/ \E c \in Conns : \E i \in 1..Len(chans[c]) : NegotiationDone(c, i)
  \/ \E c \in Conns : \E i \in 1..Len(chans[c]) :
       \E how \in {"refused", "timeout"} : NegotiationFailed(c, i, how)
  \/ \E c \in Conns : \E i \in 1..Len(chans[c]) : Serve(c, i)
  \/ \E c \in Conns : \E i \in 1..Len(chans[c]) : ChannelClose(c, i)
  \/ Shutdown
  \/ AcceptStop
  \/ MainReturn

SpecServer == ServerInit /\ [][ServerNext]_vars

\* ------------------------------------------------------------------------
\* Edit-config runs: one request dispatched to a handler that loops over
\* the entries of the request (routes, ports, VLANs) and calls the backend
\* for each setting of an entry.  The backend answers a call with a result,
\* with an error, or not at all.
\* ------------------------------------------------------------------------
\* bound: number of entries of an edit-config request
MaxEntries == 3
\* bound: number of settings of a port entry (admin-status, speed, ...)
MaxSettings == 2

\* the handlers that loop over entries
EntryHandlers ==
  {"HandleRouteEditConfig", "HandlePortConfigurationEditConfig", "HandleEditConfig"}

\* the settings an entry of a handler can carry: a route and a VLAN lead to
\* one backend call, a port to one call for each setting present
SettingsOf(handler) ==
  IF handler = "HandlePortConfigurationEditConfig" THEN 1..MaxSettings ELSE {1}

RECURSIVE SeqsUpTo(_, _)
SeqsUpTo(S, n) ==
  IF n = 0 THEN {<<>>}
  ELSE LET shorter == SeqsUpTo(S, n - 1)
       IN  shorter \cup {Append(q, x) : q \in shorter, x \in S}

\* the entries of a request to a handler
EntriesOf(handler) ==
  SeqsUpTo(UNION {[1..k -> BOOLEAN] : k \in SettingsOf(handler)}, MaxEntries)

\* what miyagi.SendRequest and the check of miyagiResp.Error yield
BackendOutcomes == {"ok", "unreachable", "device-error"}

EditInit ==
  /\ CodecIdle
  /\ FlowIdle
  /\ IdsIdle
  /\ DispatchIdle
  /\ ServerIdle
  /\ sessionCounter = InitialSessionCounter
  /\ \E handler \in EntryHandlers : \E entries \in EntriesOf(handler) :
       edit = EditRun(handler, entries)

\* the session loop reads the request and generateResponse invokes the
\* handler, which runs up to its loop: the route and the port handler
\* return an error for a request without entries, the VLAN handler its ok
EditConfigStart ==
  /\ edit.pc = "idle"
  /\ edit' = [edit EXCEPT
                !.dispatched = @ + 1,
                !.pc = IF edit.entries = <<>> THEN "done" ELSE "loop",
                !.replies = IF edit.entries # <<>> THEN @
                            ELSE IF edit.handler = "HandleEditConfig"
                                 THEN Append(@, "ok")
                                 ELSE Append(@, "rpc-error")]
  /\ UNCHANGED <<codecVars, negVars, commVars, sessVars, idVars, dispVars, srvVars>>

\* the position of the loop after the setting at (entry, setting)
Advance(run) ==
  IF run.setting < Len(run.entries[run.entry])
  THEN [run EXCEPT !.setting = @ + 1]
  ELSE IF run.entry < Len(run.entries)
  THEN [run EXCEPT !.entry = @ + 1, !.setting = 1]
  ELSE [run EXCEPT !.pc = "done", !.replies = Append(@, "ok")]

\* a loop that sends the call of a setting again when it has failed
EditConfigSetting_retry ==
  /\ edit.pc = "loop"
  /\ IF ~edit.entries[edit.entry][edit.setting]
     THEN edit' = [edit EXCEPT !.pc = "done", !.replies = Append(@, "rpc-error")]
     ELSE \E outcome \in BackendOutcomes :
            LET called == [edit EXCEPT !.calls =
                             Append(@, [entry   |-> edit.entry,
                                        setting |-> edit.setting,
                                        outcome |-> outcome])]
            IN  edit' = IF outcome = "ok" \/ Len(edit.calls) < 2 * MaxEntries * MaxSettings
                        THEN (IF outcome = "ok" THEN Advance(called) ELSE called)
                        ELSE [called EXCEPT !.pc = "done",
                                            !.replies = Append(@, "rpc-error")]
  /\ UNCHANGED <<codecVars, negVars, commVars, sessVars, idVars, dispVars, srvVars>>

\* a loop that goes on to the next setting when a call has failed and
\* reports the failure at the end
EditConfigSetting_continue ==
  /\ edit.pc = "loop"
  /\ IF ~edit.entries[edit.entry][edit.setting]
     THEN edit' = [edit EXCEPT !.pc = "done", !.replies = Append(@, "rpc-error")]
     ELSE \E outcome \in BackendOutcomes :
            LET called == [edit EXCEPT !.calls =
                             Append(@, [entry   |-> edit.entry,
                                        setting |-> edit.setting,
                                        outcome |-> outcome])]
                next   == Advance(called)
            IN  edit' = IF next.pc = "done" /\ \E k \in 1..Len(called.calls) :
                                                called.calls[k].outcome # "ok"
                        THEN [next EXCEPT !.replies = <<"rpc-error">>]
                        ELSE next
  /\ UNCHANGED <<codecVars, negVars, commVars, sessVars, idVars, dispVars, srvVars>>

\* one setting of the loop: a setting that fails the handler's validation
\* returns an error; otherwise the backend is called once, and the handler
\* returns an error when the call fails or the backend reports an error,
\* goes on when it succeeds, and returns ok after the last setting
EditConfigSetting ==
  /\ edit.pc = "loop"
  /\ IF ~edit.entries[edit.entry][edit.setting]
     THEN edit' = [edit EXCEPT !.pc = "done", !.replies = Append(@, "rpc-error")]
     ELSE \E outcome \in BackendOutcomes :
            LET called == [edit EXCEPT !.calls =
                             Append(@, [entry   |-> edit.entry,
                                        setting |-> edit.setting,
                                        outcome |-> outcome])]
            IN  edit' = IF outcome = "ok"
                        THEN Advance(called)
                        ELSE [called EXCEPT !.pc = "done",
                                            !.replies = Append(@, "rpc-error")]
  /\ UNCHANGED <<codecVars, negVars, commVars, sessVars, idVars, dispVars, srvVars>>

EditNext ==
  \/ EditConfigStart
  \/ EditConfigSetting

SpecEdit == EditInit /\ [][EditNext]_vars

\* ------------------------------------------------------------------------
\* Properties of the dispatcher
\* ------------------------------------------------------------------------
\* a request frame has been dispatched
Dispatched == dIn.kind = "request" /\ dResp # NoReply

\* C13: a request frame with no "<rpc" in it gets an rpc-error with the
\* error-tag malformed-message, and no handler is invoked.
C13_NoRpcMalformed ==
  (Dispatched /\ dIn.root # "rpc") =>
    /\ dResp.kind = "rpc-error"
    /\ dResp.errorTag = "malformed-message"
    /\ dResp.handler = ""

\* a frame whose root is not rpc, with the content of a registered data
\* model, was answered with malformed-message
C13_Witness ==
  /\ Dispatched
  /\ dIn.text = "<hello><get><vlans xmlns=\"yang:vlan\"/></get></hello>"
  /\ dResp.errorTag = "malformed-message"

\* the dispatched frame has no rpc element, or an rpc element with none of
\* the three operations in it: the protocol errors of the dispatcher
ProtocolErrorRequest ==
  \/ dIn.root # "rpc"
  \/ /\ dIn.op = "none"
     /\ ~Contains(dIn.body, "<get>")

\* C14: the rpc-error the dispatcher builds for a protocol error (no rpc
\* tag, no recognizable operation) has error-type protocol, and an rpc-error
\* with error-type application is only built for an unsupported filter or
\* target.
C14_ProtocolErrorType ==
  (Dispatched /\ dResp.kind = "rpc-error") =>
    /\ ProtocolErrorRequest => dResp.errorType = "protocol"
    /\ dResp.errorType = "application" => ~ProtocolErrorRequest

\* the content quotes the tags of one of the three operations
QuotesOperation(body) ==
  \/ Contains(body, "<get>")
  \/ Contains(body, "<get-config>")
  \/ Contains(body, "<edit-config")

\* C15: a request with an rpc element and none of get, get-config and
\* edit-config in it gets an rpc-error with the error-tag
\* operation-not-supported, and no handler is invoked.
C15_NoOperationNotSupported ==
  (Dispatched /\ dIn.root = "rpc" /\ dIn.op = "none" /\ ~QuotesOperation(dIn.body)) =>
    /\ dResp.kind = "rpc-error"
    /\ dResp.errorTag = "operation-not-supported"
    /\ dResp.handler = ""

\* an rpc element with another operation around the content of a registered
\* data model was answered with operation-not-supported
C15_Witness ==
  /\ Dispatched
  /\ dIn.text = "<rpc message-id=\"7\"><lock><vlans xmlns=\"yang:vlan\"/></lock></rpc>"
  /\ dResp.errorTag = "operation-not-supported"
  /\ dResp.msgID = "7"

\* one of the markers registered in the chain is present in the request
MarkerPresent(request, checks) ==
  \E i \in 1..Len(checks) : Matches(request, checks[i])

\* C16: a get or get-config request in which no registered marker is
\* present gets an rpc-error with the error-tag operation-not-supported,
\* and no handler is invoked.
C16_UnknownFilterNotSupported ==
  (/\ Dispatched
   /\ dIn.root = "rpc"
   /\ dIn.op \in {"get", "get-config"}
   /\ ~MarkerPresent(dIn.text, GetChecks)
   /\ ~MarkerPresent(dIn.text, GetConfigChecks)) =>
    /\ dResp.kind = "rpc-error"
    /\ dResp.errorTag = "operation-not-supported"
    /\ dResp.handler = ""

\* a get-config with a filter of an unknown data model was answered with
\* operation-not-supported
C16_Witness ==
  /\ Dispatched
  /\ dIn.text = XmlProlog \o "<rpc message-id=\"42\"><get-config><foo xmlns=\"urn:unknown\"/></get-config></rpc>"
  /\ dResp.errorTag = "operation-not-supported"
  /\ dResp.handler = ""

\* C17: an edit-config request whose content matches none of the
\* registered data-model markers gets an rpc-error with the error-tag
\* operation-failed that names the unsupported configuration target, and no
\* handler is invoked.
C17_UnknownTargetFailed ==
  (/\ Dispatched
   /\ dIn.root = "rpc"
   /\ dIn.op = "edit-config"
   /\ ~MarkerPresent(dIn.text, EditConfigChecks)) =>
    /\ dResp.kind = "rpc-error"
    /\ dResp.errorTag = "operation-failed"
    /\ dResp.errorMsg = "Unsupported configuration target in edit-config"
    /\ dResp.handler = ""

\* the value of the first message-id attribute of the dispatched frame: the
\* one on the root element, else the one in the content, else the default
FirstMessageID ==
  IF dIn.id # <<>> THEN dIn.id[1]
  ELSE IF Contains(dIn.body, "message-id=\"9\"") THEN "9"
  ELSE "1"

\* C18: extractMessageID returns the value of the first message-id="..."
\* attribute of the request, and "1" when there is none; the handler call
\* and every error reply of the dispatcher carry that identifier.
C18_MessageIdExtracted ==
  Dispatched =>
    /\ extractMessageID(dIn.text) = FirstMessageID
    /\ dResp.kind \in {"handler", "rpc-error"}
    /\ dResp.msgID = FirstMessageID

\* a get without message-id, after an XML declaration whose attributes are
\* quoted too, reached the VLAN handler with the identifier "1"
C18_Witness ==
  /\ Dispatched
  /\ dIn.text = XmlProlog \o "<rpc><get><vlans xmlns=\"yang:vlan\"/></get></rpc>"
  /\ dResp.kind = "handler"
  /\ dResp.handler = "BuildGetVlansResponse"
  /\ dResp.msgID = "1"

\* C19: the bytes generateResponse returns, on every dispatch path (handler
\* success, handler error, dispatcher-built error, XML-generation fallback),
\* end with the frame terminator and contain it exactly once, at the end.
C19_ReplyTerminatedOnce ==
  Dispatched => Index(dOut, FrameEnd) = Len(dOut) - Len(FrameEnd)

\* the same for the replies the dispatcher builds itself and for the
\* handlers other than the two interface get handlers
OtherPathsTerminatedOnce ==
  (/\ Dispatched
   /\ dResp.handler \notin {"BuildGetInterfacesResponse", "HandleIpInterfaceGetConfig"}) =>
    Index(dOut, FrameEnd) = Len(dOut) - Len(FrameEnd)

\* buildErrorResponse has been called on an error message
ErrorBuilt == dIn.kind = "message" /\ dResp # NoReply

\* the escape of one character
EscapeChar(ch) ==
  CASE ch = "<" -> "&lt;"
    [] ch = ">" -> "&gt;"
    [] ch = "&" -> "&amp;"
    [] OTHER    -> ch

\* every character of the message escaped once
RECURSIVE EscapeOnce(_)
EscapeOnce(msg) ==
  IF msg = "" THEN ""
  ELSE EscapeChar(SubSeq(msg, 1, 1)) \o EscapeOnce(SliceFrom(msg, 1))

\* what an XML reader makes of the emitted text: each entity reference
\* gives its character
RECURSIVE Unescape(_)
Unescape(text) ==
  IF text = "" THEN ""
  ELSE IF HasPrefix(text, "&lt;")  THEN "<" \o Unescape(SliceFrom(text, 4))
  ELSE IF HasPrefix(text, "&gt;")  THEN ">" \o Unescape(SliceFrom(text, 4))
  ELSE IF HasPrefix(text, "&amp;") THEN "&" \o Unescape(SliceFrom(text, 5))
  ELSE SubSeq(text, 1, 1) \o Unescape(SliceFrom(text, 1))

\* C20: buildErrorResponse emits the message with each '<', '>' and '&'
\* replaced by its entity reference, each character escaped exactly once,
\* so that unescaping the emitted text gives the message back.
C20_EscapedExactlyOnce ==
  ErrorBuilt =>
    /\ dResp.errorMsg = EscapeOnce(dIn.text)
    /\ Unescape(dResp.errorMsg) = dIn.text

\* the same for the messages that have no '<' and no '>' in them
EscapedOnceWithoutBrackets ==
  (ErrorBuilt /\ ~Contains(dIn.text, "<") /\ ~Contains(dIn.text, ">")) =>
    /\ dResp.errorMsg = EscapeOnce(dIn.text)
    /\ Unescape(dResp.errorMsg) = dIn.text

\* the get filters that carry a marker registered for the VLAN get handler
VlanGetFilters ==
  {"<vlans xmlns=\"yang:vlan\"/>", "<vlans xmlns=\"" \o VlanNamespace \o "\"/>"}

\* C21: for a get request with message-id 7 whose filter is <vlans xmlns="X"/>
\* with X a registered VLAN marker, the VLAN get handler and no other is
\* invoked, once, with that message-id, and the bytes returned are the
\* handler's bytes, which end with the terminator.
C21_VlanGetDispatched ==
  (/\ Dispatched
   /\ dIn.root = "rpc"
   /\ dIn.id = <<"7">>
   /\ dIn.op = "get"
   /\ dIn.body \in VlanGetFilters) =>
    /\ dResp = HandlerReply("BuildGetVlansResponse", "7", FrameEnd)
    /\ \E path \in HandlerPaths :
         dOut = XmlHeader \o "<rpc-reply message-id=\"7\"><"
                \o (IF path = "success" THEN "data" ELSE "rpc-error")
                \o "/></rpc-reply>" \o FrameEnd
         \/ /\ path = "xml-generation"
            /\ Contains(dOut, "<error-tag>internal-error</error-tag>")
    /\ Index(dOut, FrameEnd) = Len(dOut) - Len(FrameEnd)

\* the request of the scenario was answered with the VLAN data
C21_Witness ==
  /\ Dispatched
  /\ dIn.text = "<rpc message-id=\"7\"><get><vlans xmlns=\"yang:vlan\"/></get></rpc>"
  /\ dResp.handler = "BuildGetVlansResponse"
  /\ dOut = XmlHeader \o "<rpc-reply message-id=\"7\"><data/></rpc-reply>" \o FrameEnd

\* C22: the reply to a request carries the message-id the client put on
\* the request, for every operation and every data model, in ok, data and
\* error replies alike.
C22_ReplyCarriesMessageId ==
  (Dispatched /\ dIn.id # <<>>) =>
    Contains(dOut, "<rpc-reply message-id=\"" \o dIn.id[1] \o "\"")

\* the same for the replies the dispatcher builds itself and for the
\* handlers whose reply structure has the attribute, the XML-generation
\* fallback apart
MessageIdCarriedWhereDeclared ==
  (/\ Dispatched
   /\ dIn.id # <<>>
   /\ \/ dResp.kind = "rpc-error"
      \/ dResp.handler \in {"BuildGetVlansResponse", "HandleEditConfig"}
   /\ ~Contains(dOut, "<error-tag>internal-error</error-tag>")) =>
    Contains(dOut, "<rpc-reply message-id=\"" \o dIn.id[1] \o "\"")

\* C23: the documented Get VLANs request, a get whose filter is
\* <vlans xmlns="yang:get_vlan"/>, is routed to the VLAN get handler and is
\* not answered with an rpc-error of the dispatcher.
C23_DocumentedGetVlansRouted ==
  (/\ Dispatched
   /\ dIn.root = "rpc"
   /\ dIn.op = "get"
   /\ dIn.body = "<vlans xmlns=\"yang:get_vlan\"/>") =>
    /\ dResp.kind = "handler"
    /\ dResp.handler = "BuildGetVlansResponse"

\* C24: a request is classified as one of the three operations only when
\* the opening and the closing tag of the operation are both present: a
\* request with an opening tag and no closing tag reaches no handler and
\* gets an operation-not-supported error.
C24_UnclosedOperationNotDispatched ==
  (/\ Dispatched
   /\ dIn.root = "rpc"
   /\ dIn.op \in {"get-unclosed", "edit-config-unclosed"}
   /\ ~QuotesOperation(dIn.body)) =>
    /\ dResp.kind = "rpc-error"
    /\ dResp.errorTag = "operation-not-supported"
    /\ dResp.handler = ""

\* the same for a get left without its closing tag
UnclosedGetNotDispatched ==
  (/\ Dispatched
   /\ dIn.root = "rpc"
   /\ dIn.op = "get-unclosed"
   /\ ~QuotesOperation(dIn.body)) =>
    /\ dResp.kind = "rpc-error"
    /\ dResp.errorTag = "operation-not-supported"
    /\ dResp.handler = ""

\* the branches of a chain that match a request
MatchingChecks(request, checks) ==
  {i \in 1..Len(checks) : Matches(request, checks[i])}

\* C32: data-model resolution is first match wins over a fixed order: a get
\* request is routed to the handler of the first branch of the chain whose
\* marker it contains, and to no other; a get with both the VLAN and the
\* interface marker goes to the VLAN handler wherever the markers stand.
C32_FirstMatchWins ==
  (Dispatched /\ dIn.root = "rpc" /\ dIn.op = "get") =>
    LET matching == MatchingChecks(dIn.text, GetChecks)
    IN  /\ matching = {} => dResp.kind = "rpc-error"
        /\ matching # {} =>
             dResp = HandlerReply(GetChecks[CHOOSE i \in matching :
                                              \A j \in matching : i <= j].handler,
                                  extractMessageID(dIn.text), FrameEnd)
        /\ (Contains(dIn.text, "<vlans xmlns=\"yang:vlan\"")
            /\ Contains(dIn.text, "<interfaces xmlns=\"" \o InterfaceNamespace \o "\""))
             => dResp.handler = "BuildGetVlansResponse"

\* a get whose filter has the interface marker before the VLAN marker was
\* routed to the VLAN handler
C32_Witness ==
  /\ Dispatched
  /\ dIn.root = "rpc"
  /\ dIn.op = "get"
  /\ dIn.body = "<interfaces xmlns=\"" \o InterfaceNamespace \o "\"/><vlans xmlns=\"yang:vlan\"/>"
  /\ Cardinality({GetChecks[i].handler : i \in MatchingChecks(dIn.text, GetChecks)}) = 2
  /\ dResp.handler = "BuildGetVlansResponse"

\* the handlers of the branches of a chain that match a request
MatchingHandlers(request, checks) ==
  {checks[i].handler : i \in MatchingChecks(request, checks)}

\* C33: get and get-config resolve the data model identically: the handler
\* a get request reaches is the handler the get-config request with the same
\* content reaches.
C33_GetAndGetConfigResolveAlike ==
  (Dispatched /\ dIn.root = "rpc" /\ dIn.op = "get") =>
    dResp.handler = generateResponse(Frame("", "rpc", dIn.id, "get-config", dIn.body)).handler

\* the same for the requests with the markers of at most one data model
SingleModelResolvesAlike ==
  (/\ Dispatched
   /\ dIn.root = "rpc"
   /\ dIn.op = "get"
   /\ Cardinality(MatchingHandlers(dIn.text, GetChecks)) <= 1) =>
    dResp.handler = generateResponse(Frame("", "rpc", dIn.id, "get-config", dIn.body)).handler

\* C34: the operation class depends on the operation element alone: an
\* edit-config request is answered by the edit-config handler, whatever
\* its configuration content quotes.
C34_EditConfigReachesEditHandler ==
  (Dispatched /\ dIn.root = "rpc" /\ dIn.op = "edit-config") =>
    dResp = editConfigHandler(FrameEnd, dIn.text, extractMessageID(dIn.text))

\* the same for the edit-config requests whose content quotes no tag pair
\* of get or get-config
PlainEditConfigReachesEditHandler ==
  (/\ Dispatched
   /\ dIn.root = "rpc"
   /\ dIn.op = "edit-config"
   /\ ~QuotesOperation(dIn.body)) =>
    dResp = editConfigHandler(FrameEnd, dIn.text, extractMessageID(dIn.text))

\* C35: an edit-config with the <port-channels xmlns="yang:set_port_channel">
\* marker is handled by HandleLagEditConfig, not by the handler of the
\* physical-port configuration.
C35_PortChannelEditReachesLagHandler ==
  (/\ Dispatched
   /\ dIn.root = "rpc"
   /\ dIn.op = "edit-config"
   /\ Contains(dIn.body, "<port-channels xmlns=\"yang:set_port_channel\">")) =>
    /\ dResp.kind = "handler"
    /\ dResp.handler = "HandleLagEditConfig"

\* the handler that request reaches
PortChannelEditReachesPortConfigHandler ==
  (/\ Dispatched
   /\ dIn.root = "rpc"
   /\ dIn.op = "edit-config"
   /\ Contains(dIn.body, "<port-channels xmlns=\"yang:set_port_channel\">")) =>
    dResp = HandlerReply("HandlePortConfigurationEditConfig",
                         extractMessageID(dIn.text), FrameEnd)

\* ------------------------------------------------------------------------
\* Properties of the edit-config runs
\* ------------------------------------------------------------------------
\* the settings of the request, as (entry, setting) positions
Settings ==
  {p \in (1..Len(edit.entries)) \X (1..MaxSettings) : p[2] <= Len(edit.entries[p[1]])}

\* position p stands before position q in the document
Precedes(p, q) == p[1] < q[1] \/ (p[1] = q[1] /\ p[2] < q[2])

\* the position of the k-th backend call
CallAt(k) == <<edit.calls[k].entry, edit.calls[k].setting>>

\* the backend calls that failed
FailedCalls == {k \in 1..Len(edit.calls) : edit.calls[k].outcome # "ok"}

\* the settings the backend has applied
Applied == {CallAt(k) : k \in (1..Len(edit.calls)) \ FailedCalls}

\* C31: nothing is retried: the request is dispatched once, no setting is
\* sent to the backend twice, and a failed backend call is the last call of
\* the request and yields its one reply, an error.
C31_NothingRetried ==
  /\ edit.dispatched <= 1
  /\ Len(edit.replies) <= 1
  /\ \A k, l \in 1..Len(edit.calls) : CallAt(k) = CallAt(l) => k = l
  /\ \A k \in FailedCalls :
       /\ k = Len(edit.calls)
       /\ edit.pc = "done"
       /\ edit.replies = <<"rpc-error">>

\* the backend call of the second route of an edit-config has failed and
\* the request was answered with one error
C31_Witness ==
  /\ edit.handler = "HandleRouteEditConfig"
  /\ edit.dispatched = 1
  /\ Len(edit.calls) = 2
  /\ edit.calls[1].outcome = "ok"
  /\ edit.calls[2].outcome = "unreachable"
  /\ Len(edit.entries) = 3
  /\ edit.pc = "done"
  /\ edit.replies = <<"rpc-error">>

ChanIdx(c) == 1..Len(chans[c])

\* the session of channel i of connection c is in flight: it is established
\* and its channel has not closed
InFlight(c, i) == chans[c][i].st = "established"

\* C25: listener shutdown does not terminate the sessions in flight: a
\* session that is established stays established, able to read requests
\* and to write replies, until its own channel closes, whatever main does.
C25_ShutdownKeepsSessions ==
  [][\A c \in Conns : \A i \in ChanIdx(c) :
       InFlight(c, i) => chans'[c][i].st \in {"established", "closed"}]_vars

\* closing the listener alone ends no session: only the return of main does
ListenerCloseKeepsSessions ==
  [][Shutdown => \A c \in Conns : \A i \in ChanIdx(c) :
                   InFlight(c, i) => InFlight(c, i)']_vars

\* C26: a failed SSH handshake drops only its own connection: the failed
\* connection never has a channel or a session, the step that fails the
\* handshake changes nothing of main, of the accept loop, of the other
\* connections, of any channel or of the session counter, and afterwards
\* the accept loop still takes a waiting connection.
C26_HandshakeFailureLocal ==
  /\ [](\A c \in Conns : conn[c] = "failed" =>
          /\ chans[c] = <<>>
          /\ \A d \in Conns :
               (conn[d] = "queued" /\ mainPc = "serving" /\ acceptPc = "accepting")
                 => ENABLED Accept(d))
  /\ [][\A c \in Conns : HandshakeFail(c) =>
          /\ mainPc' = mainPc
          /\ acceptPc' = acceptPc
          /\ chans' = chans
          /\ sessionCounter' = sessionCounter
          /\ \A d \in Conns \ {c} : conn'[d] = conn[d]]_vars

\* the handshake of connection 1 has failed, the server still serves, and
\* connection 2 has an established session that has answered a request
C26_Witness ==
  /\ conn[1] = "failed"
  /\ mainPc = "serving"
  /\ acceptPc = "accepting"
  /\ conn[2] = "up"
  /\ \E i \in ChanIdx(2) : InFlight(2, i) /\ chans[2][i].answered

\* C27: the accept loop never waits for a handshake: while the handshake
\* of one connection is under way, a waiting connection can be accepted,
\* an accepted one can finish its own handshake, and a connection that is
\* up can open channels and run its sessions.
C27_AcceptDoesNotWaitForHandshake ==
  \A c \in Conns : conn[c] = "handshake" =>
    \A d \in Conns \ {c} :
      /\ (conn[d] = "queued" /\ mainPc = "serving" /\ acceptPc = "accepting")
           => ENABLED Accept(d)
      /\ (conn[d] = "handshake" /\ mainPc # "exited") => ENABLED HandshakeOk(d)
      /\ (conn[d] = "up" /\ mainPc # "exited") =>
           \A i \in ChanIdx(d) :
             /\ chans[d][i].st = "accepted" => ENABLED SessionStart(d, i)
             /\ chans[d][i].st = "negotiating" => ENABLED NegotiationDone(d, i)
             /\ (InFlight(d, i) /\ ~chans[d][i].answered) => ENABLED Serve(d, i)

\* the handshake of connection 1 is still under way while connection 2,
\* which connected later, is up with a session that has answered a request
C27_Witness ==
  /\ conn[1] = "handshake"
  /\ conn[2] = "up"
  /\ \E i \in ChanIdx(2) : InFlight(2, i) /\ chans[2][i].answered

\* C28: a channel whose type is not "session" is rejected: it never has a
\* session flow or a session identifier, the step that handles it leaves
\* the session counter and the connection as they were, and the connection
\* goes on to handle the next channel.
C28_NonSessionChannelRejected ==
  /\ [](\A c \in Conns : \A i \in ChanIdx(c) :
          chans[c][i].type # "session" =>
            /\ chans[c][i].st = "rejected"
            /\ chans[c][i].id = ""
            /\ ~chans[c][i].answered)
  /\ [](\A c \in Conns :
          (/\ conn[c] = "up"
           /\ mainPc # "exited"
           /\ ChannelsOpened(MaxConns) < MaxChannels
           /\ \E i \in ChanIdx(c) : chans[c][i].st = "rejected")
            => ENABLED OpenChannel(c, "session"))
  /\ [][\A c \in Conns : \A type \in ChannelTypes \ {"session"} :
          OpenChannel(c, type) =>
            /\ sessionCounter' = sessionCounter
            /\ conn' = conn
            /\ \A i \in ChanIdx(c) : chans'[c][i] = chans[c][i]]_vars

\* a connection whose first channel was rejected for its type and whose
\* second channel is an established session that has answered a request
C28_Witness ==
  \E c \in Conns :
    /\ Len(chans[c]) = 2
    /\ chans[c][1].type # "session"
    /\ chans[c][1].st = "rejected"
    /\ chans[c][2].type = "session"
    /\ InFlight(c, 2)
    /\ chans[c][2].answered
    /\ chans[c][2].id = "1001"

\* the identifiers of the sessions that were established
EstablishedIds ==
  UNION {{chans[c][i].id : i \in {j \in ChanIdx(c) :
                                    chans[c][j].st \in {"established", "closed"}}} :
         c \in Conns}

\* C29: a session identifier is created only for a channel that completes
\* subsystem negotiation: a channel whose negotiation failed or timed out
\* has consumed no identifier, so the identifiers of the established
\* sessions are consecutive from the first one.
C29_IdOnlyAfterNegotiation ==
  /\ \A c \in Conns : \A i \in ChanIdx(c) :
       chans[c][i].st \in {"refused", "timeout"} => chans[c][i].id = ""
  /\ \A k \in 1..Cardinality(EstablishedIds) :
       FormatUint32(AddUint32(InitialSessionCounter, k)) \in EstablishedIds

\* every channel that a session goroutine has started on has an
\* identifier, whatever became of its negotiation
IdGeneratedAtSessionStart ==
  \A c \in Conns : \A i \in ChanIdx(c) :
    /\ chans[c][i].st \in {"rejected", "accepted"} => chans[c][i].id = ""
    /\ chans[c][i].st \in {"negotiating", "established", "refused", "timeout", "closed"}
         => chans[c][i].id # ""

\* the top-level elements of the data models, as the dispatcher names them
ModelElements ==
  {"vlans", "interfaces", "ssh", "telnet", "routing", "ip-interfaces",
   "port-configurations", "port-channels", "stp-global-config", "port-status",
   "port-description", "port-speed"}

\* the data model a branch of a dispatcher chain routes to
ModelOfCheck(check) == CHOOSE e \in ModelElements : HasPrefix(check.all, "<" \o e)

\* the data models some branch of a chain routes to
ModelsOf(checks) == {ModelOfCheck(checks[i]) : i \in 1..Len(checks)}

\* the data models the dispatcher can route to
RoutedModels == ModelsOf(GetChecks) \cup ModelsOf(GetConfigChecks) \cup ModelsOf(EditConfigChecks)

\* the data model a capability of the hello stands for
ModelOfCapability(cap) ==
  CASE cap = VlanNamespace -> "vlans"
    [] cap = InterfaceNamespace -> "interfaces"
    [] cap = SshConfigNamespace -> "ssh"
    [] cap = TelnetConfigNamespace -> "telnet"
    [] cap = RoutingNamespace -> "routing"
    [] cap = IpInterfaceNamespace -> "ip-interfaces"
    [] cap = PortConfigNamespace -> "port-configurations"
    [] cap = StpGlobalConfigNamespace -> "stp-global-config"
    [] cap = PortStatusCapability -> "port-status"
    [] cap = PortDescriptionCapability -> "port-description"
    [] cap = PortSpeedCapability -> "port-speed"
    [] OTHER -> "port-channels"

\* the data models a hello advertises: all its capabilities but the base
AdvertisedModels(hello) ==
  {ModelOfCapability(hello.capabilities[k]) :
     k \in {j \in 1..Len(hello.capabilities) : hello.capabilities[j] # BaseCapability}}

\* C30: the hello of an established session advertises the base capability
\* and one capability for every data model the dispatcher routes to: the
\* advertised models are exactly the routed models.
C30_HelloAdvertisesRoutedModels ==
  \A c \in Conns : \A i \in ChanIdx(c) :
    chans[c][i].st \in {"established", "closed"} =>
      /\ chans[c][i].hello.capabilities[1] = BaseCapability
      /\ AdvertisedModels(chans[c][i].hello) = RoutedModels

\* what the hello does advertise is routed, it carries the identifier of
\* its session, and the models routed without being advertised are routing
\* and port channels, each reached by a request of the dispatcher
HelloAdvertisesOnlyRoutedModels ==
  \A c \in Conns : \A i \in ChanIdx(c) :
    chans[c][i].st \in {"established", "closed"} =>
      /\ chans[c][i].hello.capabilities[1] = BaseCapability
      /\ chans[c][i].hello.sessionID = chans[c][i].id
      /\ AdvertisedModels(chans[c][i].hello) \subseteq RoutedModels
      /\ RoutedModels \ AdvertisedModels(chans[c][i].hello) = {"routing", "port-channels"}
      /\ Resolve("<routing xmlns=\"" \o RoutingNamespace \o "\">", EditConfigChecks)
           = "HandleRouteEditConfig"
      /\ Resolve("<port-channels xmlns=\"yang:get_port_channel\"/>", GetChecks)
           = "HandleLagGetConfig"

\* ------------------------------------------------------------------------
\* Properties of the session identifiers
\* ------------------------------------------------------------------------
\* the value the i-th increment produced
IssuedVal(i) == idCalls[idOrder[i]].val

\* C12: the identifiers concurrent callers get are pairwise distinct, and
\* they increase strictly in the order the increments took effect as long
\* as the counter has not wrapped around between them.
C12_DistinctIncreasingIds ==
  /\ \A g, h \in Callers :
       (g # h /\ idCalls[g].pc = "done" /\ idCalls[h].pc = "done") =>
         idCalls[g].ret # idCalls[h].ret
  /\ \A g \in Callers : idCalls[g].pc = "done" => idCalls[g].ret # ""
  /\ \A i, j \in 1..Len(idOrder) :
       (i < j /\ \A k \in (i + 1)..j : IssuedVal(k) # Uint32(0, 0)) =>
         LessUint32(IssuedVal(i), IssuedVal(j))

\* three callers returned, their increments interleaved out of caller order
C12_Witness ==
  /\ idOrder = <<3, 1, 2>>
  /\ idCalls[3].ret = "1001"
  /\ idCalls[1].ret = "1002"
  /\ idCalls[2].ret = "1003"

\* ------------------------------------------------------------------------
\* Properties of the session flow
\* ------------------------------------------------------------------------
\* the replies the main loop has written, in order
LoopReplies == SelectSeq(out, LAMBDA w : w.kind = "reply")

\* the replies written for the initial client frame
FirstReplies == SelectSeq(out, LAMBDA w : w.kind = "first-reply")

\* C1: every request frame the main loop reads gets exactly one reply, no
\* reply is written without a request, and the replies are written in the
\* order the requests were read.  The requests read and the frames written
\* only grow at their end; a reply is written only as the response to the
\* request read last, and it makes the replies as many as the requests; so
\* reply k answers request k.  Only the request read last can be without its
\* reply (before its write, or when that write failed and ended the session).
C1_OneReplyPerRequestInOrder ==
  /\ [](/\ Len(LoopReplies) <= Len(reqLog)
        /\ pc = "read-request" => Len(LoopReplies) = Len(reqLog)
        /\ result = "nil" => Len(LoopReplies) = Len(reqLog)
        /\ Len(LoopReplies) < Len(reqLog) =>
             /\ Len(reqLog) = Len(LoopReplies) + 1
             /\ pc = "write-reply" \/ result = "failed to send RPC response")
  /\ [][/\ reqLog' # reqLog =>
            /\ Len(reqLog') = Len(reqLog) + 1
            /\ SubSeq(reqLog', 1, Len(reqLog)) = reqLog
        /\ out' # out =>
            /\ Len(out') = Len(out) + 1
            /\ SubSeq(out', 1, Len(out)) = out
        /\ LoopReplies' # LoopReplies =>
            /\ reqLog # <<>>
            /\ reqLog' = reqLog
            /\ out' = Append(out, Written(FALSE, generateResponse(reqLog[Len(reqLog)])))
            /\ Len(LoopReplies') = Len(reqLog)]_vars

\* two different requests were read and answered, each with its own reply
C1_Witness ==
  /\ pc = "read-request"
  /\ Len(reqLog) = 2
  /\ reqLog[1] # reqLog[2]
  /\ Len(LoopReplies) = 2
  /\ LoopReplies[1].body # LoopReplies[2].body

\* C4: the session reads the next frame only after the reply to the previous
\* request has been written: no step takes bytes from the channel while a
\* response is unwritten, so at most one request is in flight.
C4_NoPipelining ==
  [][Len(wire') < Len(wire) =>
       /\ pending = NoReply
       /\ Len(LoopReplies) = Len(reqLog)
       /\ Len(reqLog') <= Len(LoopReplies) + 1]_vars

\* a second request was read after the first reply had been written
C4_Witness ==
  /\ pc = "write-reply"
  /\ Len(reqLog) = 2
  /\ Len(LoopReplies) = 1
  /\ pending # NoReply

\* something has been read from the channel
HasRead == rfBuf # "" \/ clientHello # <<>> \/ reqLog # <<>> \/ readErr # ""

\* C5: the server hello, carrying the session's identifier, is written
\* before any client frame is read and before any reply; one hello per
\* session.
C5_HelloFirst ==
  /\ (HasRead \/ out # <<>>) =>
       /\ out # <<>>
       /\ out[1].kind = "hello"
       /\ out[1].sessionID = sessionID
       /\ sessionID = FormatUint32(sessionCounter)
  /\ \A i \in 2..Len(out) : out[i].kind # "hello"
  /\ pc \in {"read-hello", "write-first", "read-request", "write-reply"} => out # <<>>

\* the hello was followed by a client frame and a reply
C5_Witness ==
  /\ Len(out) >= 2
  /\ out[1].kind = "hello"
  /\ out[1].sessionID = "1001"
  /\ out[2].kind = "reply"
  /\ clientHello = <<HelloFrame>>

\* the frame without a leading XML declaration
StripProlog(frame) ==
  IF HasPrefix(frame, "<?xml") /\ Contains(frame, "?>")
  THEN TrimSpace(SliceFrom(frame, Index(frame, "?>") + 2))
  ELSE frame

\* the handling of the first client frame is over
FirstFrameHandled ==
  /\ clientHello # <<>>
  /\ pc \in {"read-request", "write-reply"}
       \/ (pc = "closed" /\ result # "failed to send response to initial client RPC")

IsNetconfRequest(req) ==
  req.Type = "subsystem" /\ SubsystemName(req.Payload) = "netconf"

\* the negotiator has acknowledged a request with success
AckedSuccess == \E i \in 1..Len(served) : served[i].ok

\* C7: the subsystem request naming netconf is acknowledged with success and
\* the session loop then starts; every other request is acknowledged as
\* rejected and the negotiator keeps waiting for a later request.
C7_NegotiationAcks ==
  /\ \A i \in 1..Len(served) : served[i].ok = IsNetconfRequest(served[i].req)
  /\ npc # "panicked"
  /\ (npc = "returned" /\ ~AckedSuccess) => reqsClosed
  /\ (AckedSuccess /\ pc = "closed") => result # "timeout"

\* C8: when the deadline elapses before the netconf request is matched, the
\* channel's negotiation fails and no session loop starts on it (no hello),
\* whatever the order of the deadline and the request.
C8_DeadlineStopsNegotiation ==
  matchedLate => (pc \in {"select", "closed"} /\ out = <<>>)

\* C9: after the netconf request was matched, a later request on the
\* channel's request stream is taken from it in the background: a request
\* never waits on the stream of a matched channel unless a goroutine is still
\* ranging over the stream.
C9_LaterRequestsDrained ==
  (AckedSuccess /\ reqs # <<>>) => npc = "range"

\* the outcomes of the session flow: negotiation failure, negotiation
\* timeout, hello write failure, read errors, clean end-of-stream and reply
\* write failures
ExitPaths ==
  {"no-subsystem", "timeout", "failed to send server hello",
   "error reading client hello", "failed to send response to initial client RPC",
   "nil", "error reading RPC request", "failed to send RPC response"}

\* C11: on every exit path of the session flow the accepted channel is
\* closed: once handleNETCONFSession has returned, with whatever outcome, the
\* channel is closed, and the flow ends with one of the outcomes only.
C11_ChannelClosedOnExit ==
  /\ result # "" => (result \in ExitPaths /\ pc = "closed")
  /\ pc = "closed" => (result \in ExitPaths /\ ~channelOpen)

\* the write of a reply failed after an earlier reply had been written, and
\* the channel was closed
C11_Witness ==
  /\ result = "failed to send RPC response"
  /\ Len(LoopReplies) = 1
  /\ Len(reqLog) = 2
  /\ ~channelOpen

\* C10: in the main loop io.EOF from readFrame ends the session with nil and
\* no reply, another read error ends it with an error and no reply; readFrame
\* returns the error of channel.Read unchanged and no payload for the bytes
\* it had received without a terminator.
C10_ReadErrors ==
  /\ [](/\ result = "nil" => (readErr = "eof" /\ pending = NoReply)
        /\ result = "error reading RPC request" => (readErr = "err" /\ pending = NoReply)
        /\ readErr # "" => (readErr = wireEnd /\ pc = "closed"))
  /\ [][readErr' # readErr =>
          /\ readErr' = wireEnd
          /\ reqLog' = reqLog
          /\ clientHello' = clientHello
          /\ out' = out
          /\ pending' = NoReply]_vars

\* the client closed the channel after an answered request and some bytes
\* with no terminator: the session ended with nil
C10_Witness ==
  /\ result = "nil"
  /\ readErr = "eof"
  /\ rfBuf # ""
  /\ Len(reqLog) >= 1
  /\ Len(LoopReplies) = Len(reqLog)

\* ------------------------------------------------------------------------
\* Properties of the frame codec
\* ------------------------------------------------------------------------
\* the terminator occurs in w followed by the terminator only at the very end
WellDelimited(w) == Index(w \o FrameEnd, FrameEnd) = Len(w)

\* the frames a codec run should return
ExpectedFrames == [i \in 1..Len(cPayloads) |-> TrimSpace(cPayloads[i])]

\* C2: for payloads W1, W2, ... each followed by the terminator and read in
\* arbitrary chunks, the successive readFrame calls return trim(W1),
\* trim(W2), ... in order: nothing is lost, duplicated or merged, and the
\* bytes that follow a terminator are kept for the next call.
C2_FramesInOrder ==
  (\A k \in 1..Len(cPayloads) : WellDelimited(cPayloads[k])) =>
    /\ Len(cFrames) <= Len(cPayloads)
    /\ \A i \in 1..Len(cFrames) : cFrames[i] = ExpectedFrames[i]
    /\ cErr = "EOF" => cFrames = ExpectedFrames
    /\ cDropped = ""

\* C3 as stated: for a single payload P that does not contain the
\* terminator, P followed by the terminator, split at arbitrary chunk
\* boundaries, is returned as trim(P) exactly once and the returned payload
\* has no terminator in it.
C3_AnyPayloadRoundTrip ==
  (Len(cPayloads) = 1 /\ ~Contains(cPayloads[1], FrameEnd)) =>
    /\ cFrames \in {<<>>, <<TrimSpace(cPayloads[1])>>}
    /\ cErr = "EOF" => cFrames = <<TrimSpace(cPayloads[1])>>
    /\ \A i \in 1..Len(cFrames) : ~Contains(cFrames[i], FrameEnd)

\* C3 as amended: the same round trip for a single payload P such that the
\* first occurrence of the terminator in P followed by the terminator is the
\* appended one (no tail of P joins the head of the terminator to form an
\* earlier terminator).
C3_SingleFrameRoundTrip ==
  (Len(cPayloads) = 1 /\ WellDelimited(cPayloads[1])) =>
    /\ cFrames \in {<<>>, <<TrimSpace(cPayloads[1])>>}
    /\ cErr = "EOF" => cFrames = <<TrimSpace(cPayloads[1])>>
    /\ \A i \in 1..Len(cFrames) : ~Contains(cFrames[i], FrameEnd)

\* a single padded payload came back trimmed although a chunk ended inside
\* its terminator, and the following call met the end of the stream
C3_Witness ==
  /\ Len(cPayloads) = 1
  /\ WellDelimited(cPayloads[1])
  /\ TrimSpace(cPayloads[1]) # cPayloads[1]
  /\ TrimSpace(cPayloads[1]) # ""
  /\ cCut
  /\ cFrames = <<TrimSpace(cPayloads[1])>>
  /\ cErr = "EOF"

\* ------------------------------------------------------------------------
\* Properties of the negotiation
\* ------------------------------------------------------------------------
\* the negotiator has acknowledged a netconf subsystem request with success
Acknowledged == \E k \in 1..Len(served) : served[k].ok

\* C37: a channel whose netconf subsystem request was acknowledged with
\* success gets its session loop and its hello: the flow never ends by the
\* negotiation timeout after the acknowledgement.
C37_AcknowledgedSessionStarts ==
  Acknowledged => result # "timeout"

\* an acknowledged channel ends without a hello only by the timeout or
\* because the connection broke before the hello could be written
AcknowledgedEndsWithoutHello ==
  (Acknowledged /\ pc = "closed" /\ out = <<>>) =>
    result \in {"timeout", "failed to send server hello"}

\* the negotiator takes a subsystem request whose payload is shorter than
\* the length prefix
TakesShortSubsystemRequest ==
  /\ npc = "range"
  /\ reqs # <<>>
  /\ Head(reqs).Type = "subsystem"
  /\ Len(Head(reqs).Payload) < 4
  /\ reqs' = Tail(reqs)

\* C38: a subsystem request whose payload is shorter than the 4-byte length
\* prefix is answered as rejected: the negotiator goes on with the next
\* request, no session starts, and the process keeps running.
C38_ShortPayloadRejected ==
  [][TakesShortSubsystemRequest =>
       /\ served' = Append(served, [req |-> Head(reqs), ok |-> FALSE])
       /\ npc' = "range"
       /\ pc' = pc
       /\ ~crashed']_vars

\* the subsystem requests with a payload of four bytes or more that do not
\* name netconf are answered as rejected and the negotiator goes on
LongPayloadRejected ==
  [][(/\ npc = "range"
      /\ reqs # <<>>
      /\ Head(reqs).Type = "subsystem"
      /\ Len(Head(reqs).Payload) >= 4
      /\ SubsystemName(Head(reqs).Payload) # "netconf"
      /\ reqs' = Tail(reqs)) =>
       /\ served' = Append(served, [req |-> Head(reqs), ok |-> FALSE])
       /\ npc' = "range"
       /\ pc' = pc
       /\ ~crashed']_vars

====
